---- MODULE Spec2Model ----
(***************************************************************************)
(* Model of the hotel demand simulator: the supply ledger                  *)
(* (utils/supply_manager.py), the pricing engine (utils/pricing_engine.py) *)
(* and the day-by-day matching loop (simulator.py).                        *)
(*                                                                         *)
(* Money is held as exact integers (cents).  A mean price over a stay is   *)
(* held in units of 1/MeanScale cent, MeanScale being a common multiple of *)
(* every stay length of the model, so that total / len(stay_dates) is      *)
(* exact.  Multipliers are held in tenths and the profit margin in         *)
(* percent.  The source computes the same quantities in floating point.    *)
(***************************************************************************)
EXTENDS Integers, Sequences, FiniteSets, Bags, TLC

VARIABLES
    simulation_id,        \* HotelDemandSimulator.simulation_id
    users,                \* HotelDemandSimulator.users: insertion-ordered map
    bookings,             \* HotelDemandSimulator.bookings
    daily_supply,         \* the daily_supply collection of the store
    bookings_collection,  \* the bookings collection of the store
    config,               \* HotelDemandSimulator.config (fixed once constructed)
    last,                 \* history: the last operation and what it returned
    calls,                \* the book_room calls in progress, one per thread
    simulation_parameters, \* HotelDemandSimulator.simulation_parameters
    saved_run,            \* the JSON file save_run writes and load_run reads
    hotel_capacity        \* HotelDemandSimulator.hotel_capacity: rooms left per
                          \* day in single-supplier mode

vars == <<simulation_id, users, bookings, daily_supply, bookings_collection,
          config, last, calls, simulation_parameters, saved_run, hotel_capacity>>

----------------------------------------------------------------------------
(* Bounds of the model *)

\* last operational day (99 in the program)
OpEnd == 2
\* cap on the number of Booking documents in the store
MaxBookings == 2

----------------------------------------------------------------------------
(* utils/models.py *)

HOTEL == "hotel"
TRAVEL_AGENT == "travel_agent"

operational_start_day == 0
operational_end_day == OpEnd

OpDays == operational_start_day..operational_end_day

\* Hotel.__post_init__: the default multipliers, in tenths
DefaultPricingConfig ==
    [lead_time_0_7 |-> 15, lead_time_8_14 |-> 13,
     lead_time_15_30 |-> 11, lead_time_31_plus |-> 10]

\* Configurations the simulator is constructed with.  Both have two hotels
\* with equal base prices, the second with a partial override of the
\* multipliers, and one travel agent whose first scheduled day lies before the
\* operational window (as in the default schedule range(-20, 100, 25)).
\* ConfigTwoDays schedules two allocation days inside the window, as the
\* default configuration schedules four; ConfigOneDay schedules one.
ConfigTwoDays ==
    [hotels |->
        << [hotel_id |-> "h1", total_rooms |-> 3, base_price |-> 1000,
            dynamic_pricing_config |-> DefaultPricingConfig],
           [hotel_id |-> "h2", total_rooms |-> 2, base_price |-> 1000,
            dynamic_pricing_config |-> [lead_time_0_7 |-> 14]] >>,
     travel_agents |->
        << [agent_id |-> "a1", operating_cost_per_room |-> 0, profit_margin |-> 30,
            allocation_schedule |-> <<-20, 0, 1>>] >>,
     allocation_rules |->
        [a1 |-> << [hotel_id |-> "h1", num_rooms |-> 1],
                   [hotel_id |-> "h2", num_rooms |-> 1] >>]]

ConfigOneDay ==
    [hotels |->
        << [hotel_id |-> "h1", total_rooms |-> 2, base_price |-> 1000,
            dynamic_pricing_config |-> DefaultPricingConfig],
           [hotel_id |-> "h2", total_rooms |-> 2, base_price |-> 1000,
            dynamic_pricing_config |-> [lead_time_0_7 |-> 14]] >>,
     travel_agents |->
        << [agent_id |-> "a1", operating_cost_per_room |-> 0, profit_margin |-> 30,
            allocation_schedule |-> <<-20, 0>>] >>,
     allocation_rules |->
        [a1 |-> << [hotel_id |-> "h1", num_rooms |-> 1],
                   [hotel_id |-> "h2", num_rooms |-> 1] >>]]

Configs == {ConfigTwoDays, ConfigOneDay}

\* One hotel of three rooms at $100 and two travel agents: the first is
\* scheduled on every day of the window with a rule for two rooms, so that its
\* later allocations find one room and then none; the second, with its rule
\* for one room, comes after it.  The first agent has
\* operating_cost_per_room = $10 and profit_margin = 0.15.
ConfigScarce ==
    [hotels |->
        << [hotel_id |-> "h1", total_rooms |-> 3, base_price |-> 10000,
            dynamic_pricing_config |-> [lead_time_8_14 |-> 12]] >>,
     travel_agents |->
        << [agent_id |-> "a1", operating_cost_per_room |-> 1000, profit_margin |-> 15,
            allocation_schedule |-> <<-20, 0, 1, 2>>],
           [agent_id |-> "a2", operating_cost_per_room |-> 0, profit_margin |-> 10,
            allocation_schedule |-> <<0>>] >>,
     allocation_rules |->
        [a1 |-> << [hotel_id |-> "h1", num_rooms |-> 2] >>,
         a2 |-> << [hotel_id |-> "h1", num_rooms |-> 1] >>]]

\* the configurations of the runs of the supply ledger on its own
SupplyConfigs == {ConfigScarce}

\* SimulationConfig.hotels, in configured order
Hotels == config.hotels
\* SimulationConfig.travel_agents
TravelAgents == config.travel_agents
\* SimulationConfig.allocation_rules: agent -> ordered (hotel, rooms) pairs
AllocationRules == config.allocation_rules

HotelIds == {Hotels[i].hotel_id : i \in 1..Len(Hotels)}
AgentIds == {TravelAgents[i].agent_id : i \in 1..Len(TravelAgents)}

get_hotel_by_id(hotel_id) ==
    LET idx == {i \in 1..Len(Hotels) : Hotels[i].hotel_id = hotel_id}
    IN  Hotels[CHOOSE i \in idx : \A j \in idx : i <= j]

get_travel_agent_by_id(agent_id) ==
    LET idx == {i \in 1..Len(TravelAgents) : TravelAgents[i].agent_id = agent_id}
    IN  TravelAgents[CHOOSE i \in idx : \A j \in idx : i <= j]

----------------------------------------------------------------------------
(* Arithmetic helpers *)

Min(a, b) == IF a <= b THEN a ELSE b

RECURSIVE Gcd(_, _)
Gcd(a, b) == IF b = 0 THEN a ELSE Gcd(b, a % b)

RECURSIVE LcmUpTo(_)
LcmUpTo(n) == IF n <= 1 THEN 1 ELSE LET l == LcmUpTo(n - 1) IN (l * n) \div Gcd(l, n)

\* a common multiple of every possible len(stay_dates)
MeanScale == LcmUpTo(operational_end_day - operational_start_day + 1)

\* total / len(stay_dates), in units of 1/MeanScale
Mean(total, n) == (total * MeanScale) \div n

\* list(range(a, b + 1))
Range(a, b) == [i \in 1..(b - a + 1) |-> a + i - 1]

RECURSIVE SumSeq(_)
SumSeq(s) == IF s = <<>> THEN 0 ELSE Head(s) + SumSeq(Tail(s))

----------------------------------------------------------------------------
(* utils/supply_manager.py: the store *)

Key(sim, hotel_id, day) == <<sim, hotel_id, day>>

HasSupply(store, sim, hotel_id, day) == Key(sim, hotel_id, day) \in DOMAIN store

\* get_daily_supply; callers test HasSupply first (a missing document is None)
get_daily_supply(store, sim, hotel_id, day) == store[Key(sim, hotel_id, day)]

\* _save_daily_supply: upsert of the whole document
_save_daily_supply(store, sim, hotel_id, day, ds) ==
    [k \in DOMAIN store \cup {Key(sim, hotel_id, day)} |->
        IF k = Key(sim, hotel_id, day) THEN ds ELSE store[k]]

\* DailySupply as initialize_simulation creates it
FreshDailySupply(sim, hotel, day) ==
    [simulation_id |-> sim, hotel_id |-> hotel.hotel_id, day |-> day,
     hotel_rooms_total |-> hotel.total_rooms,
     hotel_rooms_remaining |-> hotel.total_rooms,
     hotel_price |-> hotel.base_price,
     travel_agent_allocations |-> <<>>,
     bookings_count |-> 0, total_revenue |-> 0]

\* the (agent, allocation_day) pairs in the order the two outer loops of
\* _allocate_travel_agent_inventory visit them
RECURSIVE SchedulePairs(_, _, _)
SchedulePairs(a, i, acc) ==
    IF a > Len(TravelAgents) THEN acc
    ELSE IF i > Len(TravelAgents[a].allocation_schedule)
         THEN SchedulePairs(a + 1, 1, acc)
         ELSE SchedulePairs(a, i + 1,
                Append(acc, [agent |-> TravelAgents[a],
                             allocation_day |-> TravelAgents[a].allocation_schedule[i]]))

\* allocation_rules.get(agent_id, {}) restricted to one hotel: the room count
\* of the rule, 0 when the agent has no rule for the hotel
RuleRooms(agent_id, hotel_id) ==
    LET rules == IF agent_id \in DOMAIN AllocationRules
                 THEN AllocationRules[agent_id] ELSE <<>>
        idx == {i \in 1..Len(rules) : rules[i].hotel_id = hotel_id}
    IN  IF idx = {} THEN 0 ELSE rules[CHOOSE i \in idx : TRUE].num_rooms

\* AllocateRooms without taking the rooms out of the hotel's stock
AllocateRoomsNotCarved(ds, agent, num_rooms) ==
    LET rooms_to_allocate == Min(num_rooms, ds.hotel_rooms_remaining)
    IN  IF rooms_to_allocate > 0
        THEN [ds EXCEPT
                !.travel_agent_allocations = Append(@,
                    [supplier_id |-> agent.agent_id,
                     supplier_type |-> TRAVEL_AGENT,
                     day |-> ds.day, hotel_id |-> ds.hotel_id,
                     rooms_allocated |-> rooms_to_allocate,
                     rooms_remaining |-> rooms_to_allocate,
                     cost_basis |-> ds.hotel_price])]
        ELSE ds

\* One pass of the innermost loop body of _allocate_travel_agent_inventory on
\* one DailySupply: take min(num_rooms, hotel_rooms_remaining) rooms out of
\* the hotel's stock and append an allocation for them
AllocateRooms(ds, agent, num_rooms) ==
    LET rooms_to_allocate == Min(num_rooms, ds.hotel_rooms_remaining)
    IN  IF rooms_to_allocate > 0
        THEN [ds EXCEPT
                !.hotel_rooms_remaining = @ - rooms_to_allocate,
                !.travel_agent_allocations = Append(@,
                    [supplier_id |-> agent.agent_id,
                     supplier_type |-> TRAVEL_AGENT,
                     day |-> ds.day, hotel_id |-> ds.hotel_id,
                     rooms_allocated |-> rooms_to_allocate,
                     rooms_remaining |-> rooms_to_allocate,
                     cost_basis |-> ds.hotel_price])]
        ELSE ds

\* AllocateInto with the allocation days before the window not skipped
RECURSIVE AllocateIntoUnskipped(_, _)
AllocateIntoUnskipped(ds, pairs) ==
    IF pairs = <<>> THEN ds
    ELSE LET p == Head(pairs)
             n == RuleRooms(p.agent.agent_id, ds.hotel_id)
             visited == /\ n # 0
                        /\ ds.day >= p.allocation_day
                        /\ ds.day <= operational_end_day
         IN  AllocateIntoUnskipped(IF visited THEN AllocateRooms(ds, p.agent, n) ELSE ds,
                                   Tail(pairs))

\* What the loops of _allocate_travel_agent_inventory do to one DailySupply:
\* the documents of different (hotel, day) are independent of each other, and
\* each is visited once per (agent, allocation_day) with allocation_day inside
\* the window and not after the document's day, in the order of SchedulePairs
RECURSIVE AllocateInto(_, _)
AllocateInto(ds, pairs) ==
    IF pairs = <<>> THEN ds
    ELSE LET p == Head(pairs)
             n == RuleRooms(p.agent.agent_id, ds.hotel_id)
             visited == /\ p.allocation_day >= operational_start_day
                        /\ n # 0
                        /\ ds.day >= p.allocation_day
                        /\ ds.day <= operational_end_day
         IN  AllocateInto(IF visited THEN AllocateRooms(ds, p.agent, n) ELSE ds,
                          Tail(pairs))

_allocate_travel_agent_inventory(store, sim) ==
    [k \in DOMAIN store |->
        IF k[1] = sim THEN AllocateInto(store[k], SchedulePairs(1, 1, <<>>))
        ELSE store[k]]

\* initialize_simulation: one fresh DailySupply per (hotel, operational day),
\* written over whatever the store held under the same key, then the
\* travel-agent allocation
initialize_simulation(store, sim) ==
    LET fresh == {Key(sim, h, d) : h \in HotelIds, d \in OpDays}
        created == [k \in DOMAIN store \cup fresh |->
                      IF k \in fresh
                      THEN FreshDailySupply(sim, get_hotel_by_id(k[2]), k[3])
                      ELSE store[k]]
    IN  _allocate_travel_agent_inventory(created, sim)

----------------------------------------------------------------------------
(* utils/pricing_engine.py *)

\* dict.get(key, default) on the hotel's dynamic_pricing_config
ConfigGet(cfg, key, default) == IF key \in DOMAIN cfg THEN cfg[key] ELSE default

\* calculate_hotel_price with the buckets closed on the wrong side: a lead time
\* of 7, 14 or 30 days falls into the next bucket
calculate_hotel_price_exclusive(hotel, current_day, stay_day) ==
    LET lead_time == stay_day - current_day
        cfg == hotel.dynamic_pricing_config
        multiplier ==
            IF lead_time < 7 THEN ConfigGet(cfg, "lead_time_0_7", 15)
            ELSE IF lead_time < 14 THEN ConfigGet(cfg, "lead_time_8_14", 13)
            ELSE IF lead_time < 30 THEN ConfigGet(cfg, "lead_time_15_30", 11)
            ELSE ConfigGet(cfg, "lead_time_31_plus", 10)
    IN  (hotel.base_price * multiplier) \div 10

\* calculate_hotel_price with the multipliers of the four buckets in the
\* opposite order
calculate_hotel_price_falling(hotel, current_day, stay_day) ==
    LET lead_time == stay_day - current_day
        cfg == hotel.dynamic_pricing_config
        multiplier ==
            IF lead_time <= 7 THEN ConfigGet(cfg, "lead_time_31_plus", 10)
            ELSE IF lead_time <= 14 THEN ConfigGet(cfg, "lead_time_15_30", 11)
            ELSE IF lead_time <= 30 THEN ConfigGet(cfg, "lead_time_8_14", 13)
            ELSE ConfigGet(cfg, "lead_time_0_7", 15)
    IN  (hotel.base_price * multiplier) \div 10

calculate_hotel_price(hotel, current_day, stay_day) ==
    LET lead_time == stay_day - current_day
        cfg == hotel.dynamic_pricing_config
        multiplier ==
            IF lead_time <= 7 THEN ConfigGet(cfg, "lead_time_0_7", 15)
            ELSE IF lead_time <= 14 THEN ConfigGet(cfg, "lead_time_8_14", 13)
            ELSE IF lead_time <= 30 THEN ConfigGet(cfg, "lead_time_15_30", 11)
            ELSE ConfigGet(cfg, "lead_time_31_plus", 10)
    IN  (hotel.base_price * multiplier) \div 10

calculate_travel_agent_price(agent, hotel_cost) ==
    ((hotel_cost + agent.operating_cost_per_room) * (100 + agent.profit_margin)) \div 100

\* the first allocation of the agent in the document's list, as the loop with
\* break finds it; 0 when the agent has none
FirstAllocation(ds, agent_id) ==
    LET allocs == ds.travel_agent_allocations
        idx == {i \in 1..Len(allocs) : allocs[i].supplier_id = agent_id}
    IN  IF idx = {} THEN 0 ELSE CHOOSE i \in idx : \A j \in idx : i <= j

NoOffer == [available |-> FALSE]

\* _evaluate_hotel_offer refusing a day only below zero rooms
_evaluate_hotel_offer_zero_rooms(store, sim, hotel, current_day, stay_dates, max_price_per_night) ==
    LET n == Len(stay_dates)
        unavailable(stay_day) ==
            \/ ~HasSupply(store, sim, hotel.hotel_id, stay_day)
            \/ get_daily_supply(store, sim, hotel.hotel_id, stay_day).hotel_rooms_remaining < 0
        total_price == SumSeq([i \in 1..n |->
                          calculate_hotel_price(hotel, current_day, stay_dates[i])])
        avg_price == Mean(total_price, n)
    IN  IF \E i \in 1..n : unavailable(stay_dates[i]) THEN NoOffer
        ELSE IF avg_price > max_price_per_night * MeanScale THEN NoOffer
        ELSE [supplier_id |-> hotel.hotel_id, supplier_type |-> HOTEL,
              hotel_id |-> hotel.hotel_id, avg_price |-> avg_price,
              total_price |-> total_price, available |-> TRUE]

_evaluate_hotel_offer(store, sim, hotel, current_day, stay_dates, max_price_per_night) ==
    LET n == Len(stay_dates)
        unavailable(stay_day) ==
            \/ ~HasSupply(store, sim, hotel.hotel_id, stay_day)
            \/ get_daily_supply(store, sim, hotel.hotel_id, stay_day).hotel_rooms_remaining <= 0
        total_price == SumSeq([i \in 1..n |->
                          calculate_hotel_price(hotel, current_day, stay_dates[i])])
        avg_price == Mean(total_price, n)
    IN  IF \E i \in 1..n : unavailable(stay_dates[i]) THEN NoOffer
        ELSE IF avg_price > max_price_per_night * MeanScale THEN NoOffer
        ELSE [supplier_id |-> hotel.hotel_id, supplier_type |-> HOTEL,
              hotel_id |-> hotel.hotel_id, avg_price |-> avg_price,
              total_price |-> total_price, available |-> TRUE]

_evaluate_travel_agent_offer(store, sim, agent, hotel, current_day, stay_dates, max_price_per_night) ==
    LET n == Len(stay_dates)
        unavailable(stay_day) ==
            \/ ~HasSupply(store, sim, hotel.hotel_id, stay_day)
            \/ LET ds == get_daily_supply(store, sim, hotel.hotel_id, stay_day)
                   a == FirstAllocation(ds, agent.agent_id)
               IN  \/ a = 0
                   \/ ds.travel_agent_allocations[a].rooms_remaining <= 0
        price(stay_day) ==
            LET ds == get_daily_supply(store, sim, hotel.hotel_id, stay_day)
                a == FirstAllocation(ds, agent.agent_id)
            IN  calculate_travel_agent_price(agent,
                    ds.travel_agent_allocations[a].cost_basis)
        total_price == SumSeq([i \in 1..n |-> price(stay_dates[i])])
        avg_price == Mean(total_price, n)
    IN  IF \E i \in 1..n : unavailable(stay_dates[i]) THEN NoOffer
        ELSE IF avg_price > max_price_per_night * MeanScale THEN NoOffer
        ELSE [supplier_id |-> agent.agent_id, supplier_type |-> TRAVEL_AGENT,
              hotel_id |-> hotel.hotel_id, avg_price |-> avg_price,
              total_price |-> total_price, available |-> TRUE]

\* The offers in the order get_best_offer evaluates them: for each hotel in
\* configured order, the hotel's direct offer, then each agent's offer on it
RECURSIVE EnumerateOffers(_, _, _, _, _, _, _)
EnumerateOffers(store, sim, current_day, stay_dates, max_price_per_night, h, acc) ==
    IF h > Len(Hotels) THEN acc
    ELSE LET hotel == Hotels[h]
             direct == _evaluate_hotel_offer(store, sim, hotel, current_day,
                                             stay_dates, max_price_per_night)
             agents == [a \in 1..Len(TravelAgents) |->
                          _evaluate_travel_agent_offer(store, sim, TravelAgents[a],
                              hotel, current_day, stay_dates, max_price_per_night)]
         IN  EnumerateOffers(store, sim, current_day, stay_dates, max_price_per_night,
                             h + 1, acc \o <<direct>> \o agents)

\* PickBest replacing the best so far also on an equal avg_price
RECURSIVE PickBestLastWins(_, _)
PickBestLastWins(offers, best_offer) ==
    IF offers = <<>> THEN best_offer
    ELSE LET offer == Head(offers)
             better == /\ offer.available
                       /\ (~best_offer.available \/ offer.avg_price <= best_offer.avg_price)
         IN  PickBestLastWins(Tail(offers), IF better THEN offer ELSE best_offer)

\* the running minimum of get_best_offer: an offer replaces the best so far
\* only when its avg_price is strictly lower
RECURSIVE PickBest(_, _)
PickBest(offers, best_offer) ==
    IF offers = <<>> THEN best_offer
    ELSE LET offer == Head(offers)
             better == /\ offer.available
                       /\ (~best_offer.available \/ offer.avg_price < best_offer.avg_price)
         IN  PickBest(Tail(offers), IF better THEN offer ELSE best_offer)

get_best_offer(store, sim, current_day, stay_dates, max_price_per_night) ==
    PickBest(EnumerateOffers(store, sim, current_day, stay_dates,
                             max_price_per_night, 1, <<>>), NoOffer)

\* process_daily_shopping without the repricing: the stored prices stay
update_hotel_prices_skipped(store, sim, current_day) == store

\* update_hotel_prices repricing the days before current_day as well
update_hotel_prices_every_day(store, sim, current_day) ==
    [k \in DOMAIN store |->
        IF k[1] = sim /\ k[2] \in HotelIds /\ k[3] <= operational_end_day
        THEN [store[k] EXCEPT !.hotel_price =
                 calculate_hotel_price(get_hotel_by_id(k[2]), current_day, k[3])]
        ELSE store[k]]

\* update_hotel_prices carrying the new price into the allocations
update_hotel_prices_and_cost_basis(store, sim, current_day) ==
    [k \in DOMAIN store |->
        IF /\ k[1] = sim
           /\ k[2] \in HotelIds
           /\ k[3] >= current_day
           /\ k[3] <= operational_end_day
        THEN LET price == calculate_hotel_price(get_hotel_by_id(k[2]), current_day, k[3])
             IN  [store[k] EXCEPT
                     !.hotel_price = price,
                     !.travel_agent_allocations =
                         [i \in 1..Len(@) |-> [@[i] EXCEPT !.cost_basis = price]]]
        ELSE store[k]]

\* update_hotel_prices: reprice every stored day from current_day on
update_hotel_prices(store, sim, current_day) ==
    [k \in DOMAIN store |->
        IF /\ k[1] = sim
           /\ k[2] \in HotelIds
           /\ k[3] >= current_day
           /\ k[3] <= operational_end_day
        THEN [store[k] EXCEPT !.hotel_price =
                 calculate_hotel_price(get_hotel_by_id(k[2]), current_day, k[3])]
        ELSE store[k]]

----------------------------------------------------------------------------
(* utils/supply_manager.py: book_room *)

NoBooking == [created |-> FALSE]

\* the availability check of book_room for one day's document
HasRoom(ds, supplier_id, supplier_type) ==
    IF supplier_type = HOTEL
    THEN ds.hotel_rooms_remaining > 0
    ELSE \E i \in 1..Len(ds.travel_agent_allocations) :
            /\ ds.travel_agent_allocations[i].supplier_id = supplier_id
            /\ ds.travel_agent_allocations[i].rooms_remaining > 0

\* first loop of book_room: every day has a document and a room
AllDaysAvailable(store, sim, supplier_id, supplier_type, hotel_id, stay_dates) ==
    \A i \in 1..Len(stay_dates) :
        /\ HasSupply(store, sim, hotel_id, stay_dates[i])
        /\ HasRoom(get_daily_supply(store, sim, hotel_id, stay_dates[i]),
                   supplier_id, supplier_type)

\* second loop of book_room: the per-day price of the supplier
DayPrice(ds, supplier_id, supplier_type) ==
    IF supplier_type = HOTEL
    THEN ds.hotel_price
    ELSE calculate_travel_agent_price(get_travel_agent_by_id(supplier_id),
            ds.travel_agent_allocations[FirstAllocation(ds, supplier_id)].cost_basis)

\* the third loop of book_room counting the booking and the revenue without
\* taking the room
DecrementDayNoTake(ds, supplier_id, supplier_type, price_per_night) ==
    [ds EXCEPT !.bookings_count = @ + 1,
               !.total_revenue = @ + price_per_night]

\* the third loop of book_room taking the room of an agent's booking from the
\* hotel's own counter as well
DecrementDayHotelToo(ds, supplier_id, supplier_type, price_per_night) ==
    LET a == FirstAllocation(ds, supplier_id)
        taken == IF supplier_type = HOTEL \/ a = 0
                 THEN [ds EXCEPT !.hotel_rooms_remaining = @ - 1]
                 ELSE [ds EXCEPT !.hotel_rooms_remaining = @ - 1,
                                 !.travel_agent_allocations[a].rooms_remaining = @ - 1]
    IN  [taken EXCEPT !.bookings_count = @ + 1,
                      !.total_revenue = @ + price_per_night]

\* the decrement with bookings_count left as it was
DecrementDayUncounted(ds, supplier_id, supplier_type, price_per_night) ==
    LET a == FirstAllocation(ds, supplier_id)
        taken == IF supplier_type = HOTEL
                 THEN [ds EXCEPT !.hotel_rooms_remaining = @ - 1]
                 ELSE IF a = 0 THEN ds
                 ELSE [ds EXCEPT !.travel_agent_allocations[a].rooms_remaining = @ - 1]
    IN  [taken EXCEPT !.total_revenue = @ + price_per_night]

\* third loop of book_room, one day: decrement the supplier's counter (for an
\* agent, of the first allocation carrying its id), count the booking, add the
\* revenue
DecrementDay(ds, supplier_id, supplier_type, price_per_night) ==
    LET a == FirstAllocation(ds, supplier_id)
        taken == IF supplier_type = HOTEL
                 THEN [ds EXCEPT !.hotel_rooms_remaining = @ - 1]
                 ELSE IF a = 0 THEN ds
                 ELSE [ds EXCEPT !.travel_agent_allocations[a].rooms_remaining = @ - 1]
    IN  [taken EXCEPT !.bookings_count = @ + 1,
                      !.total_revenue = @ + price_per_night]

RECURSIVE DecrementAll(_, _, _, _, _, _, _)
DecrementAll(store, sim, supplier_id, supplier_type, hotel_id, stay_dates, price_per_night) ==
    IF stay_dates = <<>> THEN store
    ELSE LET day == Head(stay_dates)
             ds == DecrementDay(get_daily_supply(store, sim, hotel_id, day),
                                supplier_id, supplier_type, price_per_night)
         IN  DecrementAll(_save_daily_supply(store, sim, hotel_id, day, ds), sim,
                          supplier_id, supplier_type, hotel_id, Tail(stay_dates),
                          price_per_night)

\* book_room checking and decrementing in one loop: the days before the first
\* day without a room are decremented although the booking fails
RECURSIVE AvailablePrefix(_, _, _, _, _, _)
AvailablePrefix(store, sim, supplier_id, supplier_type, hotel_id, stay_dates) ==
    IF stay_dates = <<>> THEN <<>>
    ELSE IF AllDaysAvailable(store, sim, supplier_id, supplier_type, hotel_id,
                             <<Head(stay_dates)>>)
    THEN <<Head(stay_dates)>> \o AvailablePrefix(store, sim, supplier_id,
                                     supplier_type, hotel_id, Tail(stay_dates))
    ELSE <<>>

book_room_one_loop(store, collection, sim, supplier_id, supplier_type, hotel_id, booking_day, stay_dates, user_id, trip_id) ==
    LET prefix == AvailablePrefix(store, sim, supplier_id, supplier_type, hotel_id,
                                  stay_dates)
        n == Len(stay_dates)
        taken == DecrementAll(store, sim, supplier_id, supplier_type, hotel_id,
                              prefix, 0)
    IN  IF Len(prefix) < n
        THEN [booking |-> NoBooking, store |-> taken, collection |-> collection]
        ELSE LET booking == [created |-> TRUE, simulation_id |-> sim,
                             user_id |-> user_id, trip_id |-> trip_id,
                             supplier_id |-> supplier_id,
                             supplier_type |-> supplier_type,
                             booking_day |-> booking_day, stay_dates |-> stay_dates,
                             price_per_night |-> 0, total_price |-> 0,
                             hotel_id |-> hotel_id]
             IN  [booking |-> booking, store |-> taken,
                  collection |-> collection (+) SetToBag({booking})]

\* book_room: [booking, store, collection] after the call
book_room(store, collection, sim, supplier_id, supplier_type, hotel_id, booking_day, stay_dates, user_id, trip_id) ==
    IF ~AllDaysAvailable(store, sim, supplier_id, supplier_type, hotel_id, stay_dates)
    THEN [booking |-> NoBooking, store |-> store, collection |-> collection]
    ELSE
      LET n == Len(stay_dates)
          total_price == SumSeq([i \in 1..n |->
              DayPrice(get_daily_supply(store, sim, hotel_id, stay_dates[i]),
                       supplier_id, supplier_type)])
          price_per_night == Mean(total_price, n)
          booking == [created |-> TRUE, simulation_id |-> sim, user_id |-> user_id,
                      trip_id |-> trip_id, supplier_id |-> supplier_id,
                      supplier_type |-> supplier_type, booking_day |-> booking_day,
                      stay_dates |-> stay_dates, price_per_night |-> price_per_night,
                      total_price |-> total_price, hotel_id |-> hotel_id]
      IN  [booking |-> booking,
           store |-> DecrementAll(store, sim, supplier_id, supplier_type, hotel_id,
                                  stay_dates, price_per_night),
           collection |-> collection (+) SetToBag({booking})]

----------------------------------------------------------------------------
(* simulator.py *)

NoSimulation == "None"
None == <<>>
Some(x) == <<x>>

Demand(shopping_date, stay_start_date, stay_end_date, max_price_per_night) ==
    [shopping_date |-> shopping_date, stay_start_date |-> stay_start_date,
     stay_end_date |-> stay_end_date, max_price_per_night |-> max_price_per_night]

Itinerary(user_id, trip_id, demands) ==
    [user_id |-> user_id, trip_id |-> trip_id, demands |-> demands,
     is_booked |-> FALSE, booked_price_per_night |-> None,
     booked_supplier_id |-> None, booked_supplier_type |-> None,
     booked_hotel_id |-> None]

\* the itineraries from the last traveller's last one back to the first
RECURSIVE PositionsReversed(_, _, _, _)
PositionsReversed(us, u, i, acc) ==
    IF u > Len(us) THEN acc
    ELSE IF i > Len(us[u].itineraries) THEN PositionsReversed(us, u + 1, 1, acc)
    ELSE PositionsReversed(us, u, i + 1, << <<u, i>> >> \o acc)

\* the (user, itinerary) positions in the order of the two loops of
\* process_daily_shopping
RECURSIVE Positions(_, _, _, _)
Positions(us, u, i, acc) ==
    IF u > Len(us) THEN acc
    ELSE IF i > Len(us[u].itineraries) THEN Positions(us, u + 1, 1, acc)
    ELSE Positions(us, u, i + 1, Append(acc, <<u, i>>))

\* [d for d in itinerary.demands if d.shopping_date == simulation_day]
\* the demands of the day and of the days before it
MatchingDemandsUpToDay(itinerary, simulation_day) ==
    SelectSeq(itinerary.demands, LAMBDA d : d.shopping_date <= simulation_day)

MatchingDemands(itinerary, simulation_day) ==
    SelectSeq(itinerary.demands, LAMBDA d : d.shopping_date = simulation_day)

\* the has_capacity scan of the rejection branch: some hotel has direct stock
\* on some day of the stay
HasCapacity(store, sim, stay_dates) ==
    \E h \in 1..Len(Hotels) : \E i \in 1..Len(stay_dates) :
        /\ HasSupply(store, sim, Hotels[h].hotel_id, stay_dates[i])
        /\ get_daily_supply(store, sim, Hotels[h].hotel_id, stay_dates[i]).hotel_rooms_remaining > 0

\* the two continue statements of the loop body: an itinerary already booked,
\* or without a demand for the day, is passed over
SkippedNoBookedTest(itinerary, simulation_day) ==
    MatchingDemands(itinerary, simulation_day) = <<>>

Skipped(itinerary, simulation_day) ==
    \/ itinerary.is_booked
    \/ MatchingDemands(itinerary, simulation_day) = <<>>

\* what the loop body leaves in st.evals for one evaluated demand
EvalRecord(st, u, i, demand, offer, booking, rejection) ==
    [user_id |-> st.users[u].user_id,
     trip_id |-> st.users[u].itineraries[i].trip_id, pos |-> <<u, i>>,
     demand |-> demand, store |-> st.store, offer |-> offer,
     booking |-> booking, rejection |-> rejection]

\* booking_info, appended to bookings_today and to self.bookings
BookingInfo(user_id, booking, demand) ==
    [user_id |-> user_id, supplier_id |-> booking.supplier_id,
     supplier_type |-> booking.supplier_type, hotel_id |-> booking.hotel_id,
     booked_price_per_night |-> booking.price_per_night,
     stay_dates |-> [start_date |-> demand.stay_start_date,
                     end_date |-> demand.stay_end_date]]

\* the loop body after book_room: on a Booking the itinerary is marked and the
\* booking recorded, on None a capacity rejection is counted
RecordBooking(st, u, i, demand, best_offer, res) ==
    IF res.booking.created
    THEN [st EXCEPT
            !.store = res.store,
            !.collection = res.collection,
            !.users[u].itineraries[i] =
                [@ EXCEPT !.is_booked = TRUE,
                          !.booked_price_per_night = Some(res.booking.price_per_night),
                          !.booked_supplier_id = Some(res.booking.supplier_id),
                          !.booked_supplier_type = Some(res.booking.supplier_type),
                          !.booked_hotel_id = Some(res.booking.hotel_id)],
            !.bookings = Append(@, BookingInfo(st.users[u].user_id, res.booking, demand)),
            !.bookings_today = Append(@, BookingInfo(st.users[u].user_id, res.booking,
                                                     demand)),
            !.demands_checked = @ + 1,
            !.evals = Append(@, EvalRecord(st, u, i, demand, best_offer, res.booking,
                                           "none"))]
    ELSE [st EXCEPT
            !.demands_checked = @ + 1,
            !.capacity_rejections = @ + 1,
            !.evals = Append(@, EvalRecord(st, u, i, demand, best_offer, NoBooking,
                                           "capacity"))]

\* the loop body after get_best_offer: an offer is booked, no offer is counted
\* as a price or a capacity rejection
TakeOffer(st, sim, simulation_day, u, i, demand, best_offer) ==
    IF best_offer.available
    THEN RecordBooking(st, u, i, demand, best_offer,
            book_room(st.store, st.collection, sim, best_offer.supplier_id,
                      best_offer.supplier_type, best_offer.hotel_id, simulation_day,
                      Range(demand.stay_start_date, demand.stay_end_date),
                      st.users[u].user_id, st.users[u].itineraries[i].trip_id))
    ELSE IF HasCapacity(st.store, sim,
                        Range(demand.stay_start_date, demand.stay_end_date))
    THEN [st EXCEPT
            !.demands_checked = @ + 1,
            !.price_rejections = @ + 1,
            !.evals = Append(@, EvalRecord(st, u, i, demand, NoOffer, NoBooking,
                                           "price"))]
    ELSE [st EXCEPT
            !.demands_checked = @ + 1,
            !.capacity_rejections = @ + 1,
            !.evals = Append(@, EvalRecord(st, u, i, demand, NoOffer, NoBooking,
                                           "capacity"))]

\* the loop body for the first matching demand of an itinerary
EvaluateDemand(st, sim, simulation_day, u, i, demand) ==
    TakeOffer(st, sim, simulation_day, u, i, demand,
              get_best_offer(st.store, sim, simulation_day,
                             Range(demand.stay_start_date, demand.stay_end_date),
                             demand.max_price_per_night))

\* the loop body falling back on the last demand of an unbooked itinerary that
\* has none for the day
EvaluateItineraryAnyDay(st, sim, simulation_day, u, i) ==
    IF st.users[u].itineraries[i].is_booked \/ st.users[u].itineraries[i].demands = <<>>
    THEN st
    ELSE EvaluateDemand(st, sim, simulation_day, u, i,
            IF MatchingDemands(st.users[u].itineraries[i], simulation_day) # <<>>
            THEN MatchingDemands(st.users[u].itineraries[i], simulation_day)[1]
            ELSE st.users[u].itineraries[i].demands[Len(st.users[u].itineraries[i].demands)])

\* the body of the loops of process_daily_shopping for one itinerary; st is the
\* state the loop carries, st.evals the record of what was evaluated
EvaluateItinerary(st, sim, simulation_day, u, i) ==
    IF Skipped(st.users[u].itineraries[i], simulation_day) THEN st
    ELSE EvaluateDemand(st, sim, simulation_day, u, i,
            MatchingDemands(st.users[u].itineraries[i], simulation_day)[1])

RECURSIVE ShoppingLoop(_, _, _, _)
ShoppingLoop(st, sim, simulation_day, positions) ==
    IF positions = <<>> THEN st
    ELSE ShoppingLoop(EvaluateItinerary(st, sim, simulation_day,
                                        Head(positions)[1], Head(positions)[2]),
                      sim, simulation_day, Tail(positions))

\* process_daily_shopping past its precondition: reprice, then the loops
process_daily_shopping(store, collection, us, bks, sim, simulation_day) ==
    ShoppingLoop([store |-> update_hotel_prices(store, sim, simulation_day),
                  collection |-> collection, users |-> us, bookings |-> bks,
                  bookings_today |-> <<>>, demands_checked |-> 0,
                  price_rejections |-> 0, capacity_rejections |-> 0,
                  evals |-> <<>>],
                 sim, simulation_day, Positions(us, 1, 1, <<>>))

----------------------------------------------------------------------------
(* Travellers.  The demand lists have the shape the generator gives them: one *)
(* Demand per day of [shop_start, shop_end], all with the itinerary's stay,   *)
(* shop_start >= -20 and shop_end < stay_start_date.                          *)

\* _generate_casual_traveller: the price is interpolated from min_price at
\* shop_start to base_max_price at shop_end
CasualItinerary(user_id, trip_id, start_date, end_date, shop_start, shop_end, min_price, base_max_price) ==
    Itinerary(user_id, trip_id,
        [k \in 1..(shop_end - shop_start + 1) |->
            Demand(shop_start + k - 1, start_date, end_date,
                   min_price + ((base_max_price - min_price) * (k - 1))
                                 \div (shop_end - shop_start))])

\* a business itinerary that shops on the last day of its window only
BusinessItineraryLastDay(user_id, trip_id, start_date, end_date, shop_start, shop_end, max_price_per_night) ==
    Itinerary(user_id, trip_id,
        << Demand(shop_end, start_date, end_date, max_price_per_night) >>)

\* _generate_business_traveller: one fixed price
BusinessItinerary(user_id, trip_id, start_date, end_date, shop_start, shop_end, max_price_per_night) ==
    Itinerary(user_id, trip_id,
        [k \in 1..(shop_end - shop_start + 1) |->
            Demand(shop_start + k - 1, start_date, end_date, max_price_per_night)])

User(user_id, itineraries) == [user_id |-> user_id, itineraries |-> itineraries]

\* a casual traveller who is priced out twice before booking, and a business
\* traveller shopping late
MixedTravellers ==
    << User("casual-001",
            << CasualItinerary("casual-001", 0, 0, 1, -20, -6, 1000, 1400),
               CasualItinerary("casual-001", 1, 2, 2, -20, -10, 1100, 1300) >>),
       User("business-001",
            << BusinessItinerary("business-001", 0, 0, 0, -7, -1, 1500),
               BusinessItinerary("business-001", 1, 2, 2, -5, 1, 1400) >>) >>

\* three business travellers after the same night at the same price
ContendingTravellers ==
    << User("business-001", << BusinessItinerary("business-001", 0, 1, 1, -6, 0, 1300) >>),
       User("business-002", << BusinessItinerary("business-002", 0, 1, 1, -6, 0, 1300) >>),
       User("business-003", << BusinessItinerary("business-003", 0, 1, 2, -6, 0, 1300) >>) >>

\* five casual travellers after the whole window, priced out on day -20 and
\* shopping at the price of every supplier on day -10
ExhaustingTravellers ==
    << User("casual-001", << CasualItinerary("casual-001", 0, 0, OpEnd, -20, -10, 900, 1300) >>),
       User("casual-002", << CasualItinerary("casual-002", 0, 0, OpEnd, -20, -10, 900, 1300) >>),
       User("casual-003", << CasualItinerary("casual-003", 0, 0, OpEnd, -20, -10, 900, 1300) >>),
       User("casual-004", << CasualItinerary("casual-004", 0, 0, OpEnd, -20, -10, 900, 1300) >>),
       User("casual-005", << CasualItinerary("casual-005", 0, 0, OpEnd, -20, -10, 900, 1300) >>) >>

TravellerMaps == {MixedTravellers, ContendingTravellers, ExhaustingTravellers}

SimIds == {"sim_1"}

\* the days process_daily_shopping is called for: lead times to the window in
\* the 15-30, the 8-14 and the 0-7 bucket, and a day inside the window
ProcessDays == {-20, -10, -6, 1}

\* the stays inside the operational window
Stays == {Range(a, b) : a \in OpDays, b \in OpDays} \ {<<>>}

\* the stays book_room is called for directly: those inside the window, and
\* those running one day past its end, where the store holds no document
CallStays == Stays \cup {Range(a, operational_end_day + 1) : a \in OpDays}

\* self.users[user_id] = itineraries for each generated traveller: a key
\* already in the map keeps its place, a new key goes to the end
RECURSIVE PutUsers(_, _)
PutUsers(us, generated) ==
    IF generated = <<>> THEN us
    ELSE LET g == Head(generated)
             idx == {k \in 1..Len(us) : us[k].user_id = g.user_id}
         IN  PutUsers(IF idx = {} THEN Append(us, g)
                      ELSE [us EXCEPT ![CHOOSE k \in idx : TRUE] = g],
                      Tail(generated))

----------------------------------------------------------------------------
(* Operations *)

\* the threads that call book_room concurrently
Threads == {1, 2}

\* a thread outside book_room
IdleCall ==
    [pc |-> "idle", supplier_id |-> "", supplier_type |-> "", hotel_id |-> "",
     stay_dates |-> <<>>, i |-> 0, total_price |-> 0, price_per_night |-> 0,
     daily_supply |-> None, returned |-> None]

\* the stays of the concurrent calls: the first operational day, alone or
\* with the day after it
ConcStays == {Range(operational_start_day, operational_start_day),
              Range(operational_start_day, operational_start_day + 1)}

----------------------------------------------------------------------------
(* simulator.py: the traveller generator.  The values the random module       *)
(* returns are inputs: the days random.choice picks, the truncated samples    *)
(* of the trip lengths, the offsets random.randint returns, the prices.       *)

year_length == 100
LastStayDay == 99
EarliestShoppingDay == -20
CasualBlockOut == 25

Max(a, b) == IF a >= b THEN a ELSE b

\* sorted(values)
RECURSIVE sorted(_)
sorted(values) ==
    IF values = <<>> THEN <<>>
    ELSE LET least == CHOOSE k \in 1..Len(values) :
                          \A j \in 1..Len(values) : values[k] <= values[j]
         IN  <<values[least]>>
             \o sorted([j \in 1..(Len(values) - 1) |->
                           IF j < least THEN values[j] ELSE values[j + 1]])

\* sorted(values, reverse=True)
sorted_reverse(values) ==
    LET ascending == sorted(values)
    IN  [k \in 1..Len(values) |-> ascending[Len(values) + 1 - k]]

\* the days one pick takes out of available_days: range(start_date,
\* min(start_date + block, year_length))
BlockedDays(start_date, block) ==
    start_date..(Min(start_date + block, year_length) - 1)

\* the loop of _schedule_trips: one pick per block while days are left
RECURSIVE ScheduleLoop(_, _, _, _)
ScheduleLoop(blocks, picks, available_days, trip_dates) ==
    IF blocks = <<>> \/ available_days = {} \/ picks = <<>> THEN trip_dates
    ELSE ScheduleLoop(Tail(blocks), Tail(picks),
                      available_days \ BlockedDays(Head(picks), Head(blocks)),
                      Append(trip_dates, Head(picks)))

\* the picks are days random.choice can return: each one is available when
\* it is picked, and there is one for every round of the loop
RECURSIVE PicksAvailable(_, _, _)
PicksAvailable(blocks, picks, available_days) ==
    IF blocks = <<>> \/ available_days = {} THEN picks = <<>>
    ELSE /\ picks # <<>>
         /\ Head(picks) \in available_days
         /\ PicksAvailable(Tail(blocks), Tail(picks),
                           available_days \ BlockedDays(Head(picks), Head(blocks)))

\* the days blocked per trip: the trip lengths in descending order plus one,
\* or 25 days for each of num_trips trips
ScheduleBlocks(num_trips, trip_lengths) ==
    IF trip_lengths # <<>>
    THEN [k \in 1..Len(trip_lengths) |-> sorted_reverse(trip_lengths)[k] + 1]
    ELSE [k \in 1..num_trips |-> CasualBlockOut]

\* the start days in the order they were picked
_schedule_trips_unsorted(num_trips, trip_lengths, picks) ==
    ScheduleLoop(ScheduleBlocks(num_trips, trip_lengths), picks,
                 0..(year_length - 1), <<>>)

_schedule_trips(num_trips, trip_lengths, picks) ==
    sorted(ScheduleLoop(ScheduleBlocks(num_trips, trip_lengths), picks,
                        0..(year_length - 1), <<>>))

\* max(1, int(random.gauss(...))) of the truncated sample
TripLength(sample) == Max(1, sample)

\* end_date with the year's last day left out of it
StayEndUnclamped(start_date, trip_length) == start_date + trip_length - 1

\* end_date = min(99, start_date + trip_length - 1)
StayEnd(start_date, trip_length) == Min(LastStayDay, start_date + trip_length - 1)

\* shop_start with the clamp left out
ShopStartUnclamped(start_date, offset) == start_date - offset

\* shop_start = max(start_date - randint, -20)
ShopStart(start_date, offset) == Max(start_date - offset, EarliestShoppingDay)

\* the trip of a casual traveller: stay and shopping window
CasualTrip(trip_id, start_date, draw) ==
    LET shop_start == ShopStart(start_date, draw.shop_start_offsets[trip_id + 1])
        shop_end == start_date - draw.shop_end_offsets[trip_id + 1]
    IN  [trip_id |-> trip_id, start_date |-> start_date,
         end_date |-> StayEnd(start_date, TripLength(draw.trip_lengths[trip_id + 1])),
         shop_start |-> shop_start,
         shop_end |-> IF shop_end <= shop_start THEN shop_start + 1 ELSE shop_end]

CasualTrips(draw) ==
    LET trip_dates == _schedule_trips(2, <<>>, draw.picks)
    IN  [k \in 1..Len(trip_dates) |-> CasualTrip(k - 1, trip_dates[k], draw)]

\* _generate_casual_traveller
_generate_casual_traveller(user_id, draw) ==
    LET trips == CasualTrips(draw)
    IN  User(user_id,
             [k \in 1..Len(trips) |->
                 CasualItinerary(user_id, trips[k].trip_id, trips[k].start_date,
                                 trips[k].end_date, trips[k].shop_start,
                                 trips[k].shop_end, draw.min_price,
                                 draw.base_max_price)])

\* trip_lengths of a business traveller: the long trip, then four short ones
BusinessTripLengths(draw) ==
    [k \in 1..Len(draw.trip_lengths) |-> TripLength(draw.trip_lengths[k])]

\* the trip of a business traveller: trip_lengths[trip_id] nights from the
\* trip_id-th start date, shopped from 3 to 7 days ahead to the day before
BusinessTrip(trip_id, start_date, draw) ==
    [trip_id |-> trip_id, start_date |-> start_date,
     end_date |-> StayEnd(start_date, BusinessTripLengths(draw)[trip_id + 1]),
     shop_start |-> ShopStart(start_date, draw.shop_start_offsets[trip_id + 1]),
     shop_end |-> start_date - 1]

BusinessTrips(draw) ==
    LET trip_dates == _schedule_trips(5, BusinessTripLengths(draw), draw.picks)
    IN  [k \in 1..Len(trip_dates) |-> BusinessTrip(k - 1, trip_dates[k], draw)]

\* _generate_business_traveller
_generate_business_traveller(user_id, draw) ==
    LET trips == BusinessTrips(draw)
    IN  User(user_id,
             [k \in 1..Len(trips) |->
                 BusinessItinerary(user_id, trips[k].trip_id, trips[k].start_date,
                                   trips[k].end_date, trips[k].shop_start,
                                   trips[k].shop_end, draw.max_price_per_night)])

\* the most travellers one call generates
MaxUsers == 2

\* f"{n:03d}"
Format03d(n) ==
    IF n < 10 THEN "00" \o ToString(n)
    ELSE IF n < 100 THEN "0" \o ToString(n) ELSE ToString(n)

\* f"casual-{i+1:03d}", f"business-{i+1:03d}" for i in range(...)
CasualIds == [k \in 1..MaxUsers |-> "casual-" \o Format03d(k)]
BusinessIds == [k \in 1..MaxUsers |-> "business-" \o Format03d(k)]

\* int(total_users * proportion_casual), proportion_casual = <<p, q>> for p/q
num_casual(total_users, proportion_casual) ==
    (total_users * proportion_casual[1]) \div proportion_casual[2]

\* _generate_travellers: the casual travellers, then the business travellers
_generate_travellers(us, casual_draws, business_draws) ==
    PutUsers(us,
        [k \in 1..Len(casual_draws) |->
            _generate_casual_traveller(CasualIds[k], casual_draws[k])]
        \o [k \in 1..Len(business_draws) |->
               _generate_business_traveller(BusinessIds[k], business_draws[k])])

CasualDraw(picks, trip_lengths, shop_start_offsets, shop_end_offsets) ==
    [picks |-> picks, trip_lengths |-> trip_lengths,
     shop_start_offsets |-> shop_start_offsets,
     shop_end_offsets |-> shop_end_offsets,
     min_price |-> 900, base_max_price |-> 1300]

TypicalCasualDraw == CasualDraw(<<10, 60>>, <<8, 8>>, <<20, 50>>, <<5, 15>>)

\* draws of a casual traveller: a spring and an autumn trip; a second pick two
\* days before the first; the first and the last day of the year, with a
\* sample that truncates to 0; a trip that would run past the year's end
CasualDraws ==
    { TypicalCasualDraw,
      CasualDraw(<<50, 48>>, <<8, 8>>, <<20, 20>>, <<5, 5>>),
      CasualDraw(<<0, 99>>, <<0, 8>>, <<50, 50>>, <<15, 15>>),
      CasualDraw(<<95, 20>>, <<8, 14>>, <<50, 20>>, <<15, 5>>) }

BusinessDraw(picks, trip_lengths, shop_start_offsets) ==
    [picks |-> picks, trip_lengths |-> trip_lengths,
     shop_start_offsets |-> shop_start_offsets, max_price_per_night |-> 1500]

TypicalBusinessDraw ==
    BusinessDraw(<<0, 30, 40, 50, 60>>, <<20, 5, 5, 5, 5>>, <<3, 7, 5, 3, 7>>)

\* draws of a business traveller: five trips apart; the short trips picked
\* just before the long one; four trips that use up the year; the first and
\* the last day of the year
BusinessDraws ==
    { TypicalBusinessDraw,
      BusinessDraw(<<60, 58, 56, 54, 52>>, <<20, 5, 5, 5, 5>>, <<3, 3, 3, 3, 3>>),
      BusinessDraw(<<0, 63, 77, 89>>, <<62, 5, 11, 11, 13>>, <<7, 7, 7, 7, 7>>),
      BusinessDraw(<<99, 0, 30, 40, 50>>, <<25, 6, 4, 0, 5>>, <<7, 7, 3, 5, 3>>) }

\* the draws the random module can return
CasualDrawProducible(draw) ==
    PicksAvailable(ScheduleBlocks(2, <<>>), draw.picks, 0..(year_length - 1))

BusinessDrawProducible(draw) ==
    PicksAvailable(ScheduleBlocks(5, BusinessTripLengths(draw)), draw.picks,
                   0..(year_length - 1))

\* proportion_casual: 0, 1/2 and 1
Proportions == {<<0, 1>>, <<1, 2>>, <<1, 1>>}

----------------------------------------------------------------------------
(* simulator.py: run_full_simulation, get_statistics, save_run, load_run;     *)
(* utils/supply_manager.py: get_simulation_statistics, cleanup_simulation     *)

\* the guard left out: the calls run whatever the simulation id
InitializedAlways(sim) == TRUE

\* "if not self.simulation_id" is false
Initialized(sim) == sim # NoSimulation

\* range(-20, 100) of run_full_simulation
FirstSimulationDay == -20
LastSimulationDay == 99

RECURSIVE SumBookings(_, _)
SumBookings(collection, docs) ==
    IF docs = {} THEN 0
    ELSE LET b == CHOOSE d \in docs : TRUE
         IN  CopiesIn(b, collection) * b.total_price
             + SumBookings(collection, docs \ {b})

\* len(bookings) of the documents in docs
CountBookings(collection, docs) ==
    BagCardinality([b \in docs |-> CopiesIn(b, collection)])

\* the occupancy loop of get_simulation_statistics over the (day, hotel)
\* pairs that have a document: total_rooms, or the rooms sold, summed
RECURSIVE RoomDays(_, _, _, _)
RoomDays(store, sim, pairs, booked) ==
    IF pairs = {} THEN 0
    ELSE LET x == CHOOSE y \in pairs : TRUE
             hotel == Hotels[x[2]]
             ds == get_daily_supply(store, sim, hotel.hotel_id, x[1])
         IN  (IF booked THEN hotel.total_rooms - ds.hotel_rooms_remaining
              ELSE hotel.total_rooms)
             + RoomDays(store, sim, pairs \ {x}, booked)

\* get_simulation_statistics; the two quotients are kept as <<numerator,
\* denominator>>, <<0, 1>> where the code returns 0
get_simulation_statistics(store, collection, sim) ==
    LET found == {b \in BagToSet(collection) : b.simulation_id = sim}
        total_revenue == SumBookings(collection, found)
        stocked == {x \in OpDays \X (1..Len(Hotels)) :
                       HasSupply(store, sim, Hotels[x[2]].hotel_id, x[1])}
        total_room_days == RoomDays(store, sim, stocked, FALSE)
        booked_room_days == RoomDays(store, sim, stocked, TRUE)
    IN  [total_bookings |-> CountBookings(collection, found),
         total_revenue |-> total_revenue,
         total_room_days |-> total_room_days,
         booked_room_days |-> booked_room_days,
         occupancy_rate |-> IF total_room_days > 0
                            THEN <<booked_room_days * 100, total_room_days>>
                            ELSE <<0, 1>>,
         hotel_bookings |->
             CountBookings(collection, {b \in found : b.supplier_type = HOTEL}),
         travel_agent_bookings |->
             CountBookings(collection, {b \in found : b.supplier_type = TRAVEL_AGENT}),
         avg_price_per_night |-> IF booked_room_days > 0
                                 THEN <<total_revenue, booked_room_days>>
                                 ELSE <<0, 1>>]

\* cleanup_simulation: delete_many on the ledger and on the bookings
cleanup_simulation(store, collection, sim) ==
    LET kept == {k \in DOMAIN store : k[1] # sim}
        left == {b \in BagToSet(collection) : b.simulation_id # sim}
    IN  [store |-> [k \in kept |-> store[k]],
         collection |-> [b \in left |-> CopiesIn(b, collection)]]

\* the documents of a store written out, one by one
Documents(store) == store @@ <<>>

\* the loop of run_full_simulation over the days first_day..last_day, in
\* order: the days of the first half, then those of the second half on the
\* state the first half leaves
RECURSIVE SimulationLoopDescending(_, _, _, _)
SimulationLoopDescending(st, sim, first_day, last_day) ==
    IF first_day > last_day THEN st
    ELSE IF first_day = last_day
    THEN LET after == process_daily_shopping(st.store, st.collection, st.users,
                                             st.bookings, sim, first_day)
         IN  [store |-> Documents(after.store), collection |-> after.collection,
              users |-> after.users, bookings |-> after.bookings,
              days |-> Append(st.days, first_day)]
    ELSE LET middle == first_day + (last_day - first_day) \div 2
         IN  CHOOSE done \in
                 {SimulationLoopDescending(half, sim, first_day, middle) :
                     half \in {SimulationLoopDescending(st, sim, middle + 1, last_day)}} :
                 TRUE

\* days lists the simulation_day of every process_daily_shopping call made
RECURSIVE SimulationLoop(_, _, _, _)
SimulationLoop(st, sim, first_day, last_day) ==
    IF first_day > last_day THEN st
    ELSE IF first_day = last_day
    THEN LET after == process_daily_shopping(st.store, st.collection, st.users,
                                             st.bookings, sim, first_day)
         IN  [store |-> Documents(after.store), collection |-> after.collection,
              users |-> after.users, bookings |-> after.bookings,
              days |-> Append(st.days, first_day)]
    ELSE LET middle == first_day + (last_day - first_day) \div 2
         IN  CHOOSE done \in
                 {SimulationLoop(half, sim, middle + 1, last_day) :
                     half \in {SimulationLoop(st, sim, first_day, middle)}} : TRUE

\* run_full_simulation past its precondition
run_full_simulation(store, collection, us, bks, sim) ==
    SimulationLoop([store |-> store, collection |-> collection, users |-> us,
                    bookings |-> bks, days |-> <<>>],
                   sim, FirstSimulationDay, LastSimulationDay)

\* a JSON object: its members in insertion order
JsonNull == [json |-> "null"]
JsonObject(members) == [json |-> "object", members |-> members]
JsonHas(obj, key) == \E m \in 1..Len(obj.members) : obj.members[m][1] = key
JsonMember(obj, key) ==
    obj.members[CHOOSE m \in 1..Len(obj.members) : obj.members[m][1] = key][2]

\* dict.get(key, default)
JsonGet(obj, key, default) == IF JsonHas(obj, key) THEN JsonMember(obj, key) ELSE default

\* an Optional field as json.dump writes it and as json.load reads it back
DumpOptional(opt) == IF opt = None THEN JsonNull ELSE [json |-> "value", value |-> opt[1]]
LoadOptional(v) == IF v = JsonNull THEN None ELSE Some(v.value)

\* asdict(d)
asdict(d) ==
    JsonObject(<< <<"shopping_date", d.shopping_date>>,
                  <<"stay_start_date", d.stay_start_date>>,
                  <<"stay_end_date", d.stay_end_date>>,
                  <<"max_price_per_night", d.max_price_per_night>> >>)

\* Demand(**d)
DemandFromDict(d) ==
    Demand(JsonMember(d, "shopping_date"), JsonMember(d, "stay_start_date"),
           JsonMember(d, "stay_end_date"), JsonMember(d, "max_price_per_night"))

\* itinerary_data of save_run
ItineraryData(itinerary) ==
    JsonObject(<< <<"trip_id", itinerary.trip_id>>,
                  <<"demands", [d \in 1..Len(itinerary.demands) |->
                                   asdict(itinerary.demands[d])]>>,
                  <<"is_booked", itinerary.is_booked>>,
                  <<"booked_price_per_night", DumpOptional(itinerary.booked_price_per_night)>>,
                  <<"booked_supplier_id", DumpOptional(itinerary.booked_supplier_id)>>,
                  <<"booked_supplier_type", DumpOptional(itinerary.booked_supplier_type)>>,
                  <<"booked_hotel_id", DumpOptional(itinerary.booked_hotel_id)>> >>)

\* load_run that reads the demands and leaves every itinerary unbooked
ItineraryFromDataUnbooked(user_id, itinerary_data) ==
    Itinerary(user_id, JsonMember(itinerary_data, "trip_id"),
              LET ds == JsonMember(itinerary_data, "demands")
              IN  [d \in 1..Len(ds) |-> DemandFromDict(ds[d])])

\* the Itinerary load_run builds from itinerary_data under the key user_id
ItineraryFromData(user_id, itinerary_data) ==
    [user_id |-> user_id,
     trip_id |-> JsonMember(itinerary_data, "trip_id"),
     demands |-> LET ds == JsonMember(itinerary_data, "demands")
                 IN  [d \in 1..Len(ds) |-> DemandFromDict(ds[d])],
     is_booked |-> JsonGet(itinerary_data, "is_booked", FALSE),
     booked_price_per_night |->
         LoadOptional(JsonGet(itinerary_data, "booked_price_per_night", JsonNull)),
     booked_supplier_id |->
         LoadOptional(JsonGet(itinerary_data, "booked_supplier_id", JsonNull)),
     booked_supplier_type |->
         LoadOptional(JsonGet(itinerary_data, "booked_supplier_type", JsonNull)),
     booked_hotel_id |->
         LoadOptional(JsonGet(itinerary_data, "booked_hotel_id", JsonNull))]

\* the file save_run writes
save_run(params, us) ==
    [simulation_parameters |-> params,
     users |-> JsonObject([u \in 1..Len(us) |->
                  <<us[u].user_id,
                    [i \in 1..Len(us[u].itineraries) |->
                        ItineraryData(us[u].itineraries[i])]>>])]

\* self.simulation_parameters.get("simulation_id")
LoadedSimulationId(params) ==
    IF "simulation_id" \in DOMAIN params THEN params.simulation_id ELSE NoSimulation

\* the simulator fields load_run assigns from the file
load_run(data) ==
    [simulation_parameters |-> data.simulation_parameters,
     simulation_id |-> LoadedSimulationId(data.simulation_parameters),
     users |-> PutUsers(<<>>,
                  [u \in 1..Len(data.users.members) |->
                      User(data.users.members[u][1],
                           [i \in 1..Len(data.users.members[u][2]) |->
                               ItineraryFromData(data.users.members[u][1],
                                                 data.users.members[u][2][i])])])]

\* self.simulation_parameters = {} of the constructor
NoParameters == [empty |-> TRUE]

\* the casual travellers of a generated map
NumCasual(generated) ==
    Cardinality({k \in 1..Len(generated) :
                    SubSeq(generated[k].user_id, 1, 6) = "casual"})

\* self.simulation_parameters as generate_demand fills it; proportion_casual
\* is the fraction <<casual travellers, total_users>>
SimulationParameters(sim, total_users, proportion_casual) ==
    [simulation_id |-> sim, total_users |-> total_users,
     proportion_casual |-> proportion_casual,
     total_hotel_capacity |-> SumSeq([h \in 1..Len(Hotels) |-> Hotels[h].total_rooms]),
     hotels |-> [h \in 1..Len(Hotels) |->
                   [hotel_id |-> Hotels[h].hotel_id, rooms |-> Hotels[h].total_rooms,
                    base_price |-> Hotels[h].base_price]],
     travel_agents |-> [a \in 1..Len(TravelAgents) |->
                          [agent_id |-> TravelAgents[a].agent_id]]]

GeneratedParameters(sim, generated) ==
    SimulationParameters(sim, Len(generated), <<NumCasual(generated), Len(generated)>>)

Init ==
    /\ simulation_id = NoSimulation
    /\ users = <<>>
    /\ bookings = <<>>
    /\ daily_supply = <<>>
    /\ bookings_collection = EmptyBag
    /\ config \in Configs
    /\ last = [op |-> "init"]
    /\ calls = [t \in Threads |-> IdleCall]
    /\ simulation_parameters = NoParameters
    /\ saved_run = None
    /\ hotel_capacity = <<>>

\* generate_demand on a simulator that has no simulation and no booking yet
GenerateDemand(sim, generated) ==
    /\ simulation_id = NoSimulation
    /\ bookings = <<>>
    /\ simulation_id' = sim
    /\ daily_supply' = initialize_simulation(daily_supply, sim)
    /\ users' = PutUsers(users, generated)
    /\ last' = [op |-> "generate_demand"]
    /\ simulation_parameters' = GeneratedParameters(sim, generated)
    /\ UNCHANGED <<bookings, bookings_collection, config, hotel_capacity, saved_run, calls>>

\* process_daily_shopping(simulation_day) on an initialized simulator
ProcessDailyShopping(simulation_day) ==
    /\ Initialized(simulation_id)
    /\ \E st \in {process_daily_shopping(daily_supply, bookings_collection, users,
                                          bookings, simulation_id, simulation_day)} :
           /\ daily_supply' = st.store
           /\ bookings_collection' = st.collection
           /\ users' = st.users
           /\ bookings' = st.bookings
           /\ last' = [op |-> "process_daily_shopping", day |-> simulation_day,
                       before |-> users,
                       returned |-> st.bookings_today, evals |-> st.evals,
                       demands_checked |-> st.demands_checked,
                       price_rejections |-> st.price_rejections,
                       capacity_rejections |-> st.capacity_rejections]
    /\ UNCHANGED <<simulation_id, config, hotel_capacity, simulation_parameters, saved_run, calls>>

\* supply_manager.book_room called directly for a walk-in guest
BookRoom(supplier_id, supplier_type, hotel_id, stay_dates) ==
    /\ simulation_id # NoSimulation
    /\ BagCardinality(bookings_collection) < MaxBookings
    /\ \E res \in {book_room(daily_supply, bookings_collection, simulation_id,
                              supplier_id, supplier_type, hotel_id,
                              operational_start_day, stay_dates, "walk-in", 0)} :
           /\ daily_supply' = res.store
           /\ bookings_collection' = res.collection
           /\ last' = [op |-> "book_room", supplier_type |-> supplier_type,
                       returned |-> res.booking,
                       some_day_available |->
                          \E i \in 1..Len(stay_dates) :
                             AllDaysAvailable(daily_supply, simulation_id, supplier_id,
                                 supplier_type, hotel_id, <<stay_dates[i]>>)]
    /\ UNCHANGED <<simulation_id, users, bookings, config, hotel_capacity, simulation_parameters, saved_run, calls>>

BookHotel == \E hotel_id \in HotelIds, stay_dates \in CallStays :
                BookRoom(hotel_id, HOTEL, hotel_id, stay_dates)

BookAgent == \E agent_id \in AgentIds, hotel_id \in HotelIds, stay_dates \in CallStays :
                BookRoom(agent_id, TRAVEL_AGENT, hotel_id, stay_dates)

\* The simulator: demand generation, then days processed in any order
Next ==
    \/ \E sim \in SimIds, generated \in TravellerMaps : GenerateDemand(sim, generated)
    \/ \E simulation_day \in ProcessDays : ProcessDailyShopping(simulation_day)

Spec == Init /\ [][Next]_vars

\* The supply ledger on its own: initialized for a simulation without
\* travellers, then any sequence of book_room calls
LedgerNext ==
    \/ \E sim \in SimIds : GenerateDemand(sim, <<>>)
    \/ BookHotel
    \/ BookAgent

LedgerSpec == Init /\ [][LedgerNext]_vars

----------------------------------------------------------------------------
(* The supply ledger and the pricing engine called directly: the ledger is    *)
(* initialized, prices are updated for a day and rooms are booked, in any     *)
(* order.                                                                     *)

SupplyInit ==
    /\ simulation_id = NoSimulation
    /\ users = <<>>
    /\ bookings = <<>>
    /\ daily_supply = <<>>
    /\ bookings_collection = EmptyBag
    /\ config \in SupplyConfigs
    /\ last = [op |-> "init"]
    /\ calls = [t \in Threads |-> IdleCall]
    /\ simulation_parameters = NoParameters
    /\ saved_run = None
    /\ hotel_capacity = <<>>

\* the days update_hotel_prices is called for: lead times to the window in
\* the 15-30 bucket, across the 0-7 and 8-14 buckets, and a day in the window
UpdateDays == {-20, -6, 1}

\* pricing_engine.update_hotel_prices(simulation_id, current_day, supply_manager)
UpdateHotelPrices(current_day) ==
    /\ simulation_id # NoSimulation
    /\ daily_supply' = update_hotel_prices(daily_supply, simulation_id, current_day)
    /\ last' = [op |-> "update_hotel_prices", current_day |-> current_day]
    /\ UNCHANGED <<simulation_id, users, bookings, bookings_collection, config, hotel_capacity,
                   simulation_parameters, saved_run, calls>>

SupplyNext ==
    \/ \E sim \in SimIds : GenerateDemand(sim, <<>>)
    \/ \E current_day \in UpdateDays : UpdateHotelPrices(current_day)
    \/ BookHotel
    \/ BookAgent

SupplySpec == SupplyInit /\ [][SupplyNext]_vars

----------------------------------------------------------------------------
(* book_room step by step: every get_daily_supply, _save_daily_supply and     *)
(* _save_booking is one access to the store, and the accesses of two threads  *)
(* interleave.                                                                 *)

\* a thread enters book_room
CallBookRoom(t, supplier_id, supplier_type, hotel_id, stay_dates) ==
    /\ simulation_id # NoSimulation
    /\ calls[t].pc = "idle"
    /\ calls' = [calls EXCEPT ![t] =
                    [IdleCall EXCEPT !.pc = "check", !.supplier_id = supplier_id,
                                     !.supplier_type = supplier_type,
                                     !.hotel_id = hotel_id,
                                     !.stay_dates = stay_dates, !.i = 1]]
    /\ UNCHANGED <<simulation_id, users, bookings, daily_supply,
                   bookings_collection, config, hotel_capacity, simulation_parameters, saved_run, last>>

\* first loop, one day: read the document and test the supplier's rooms
CheckAvailability(t) ==
    LET c == calls[t]
        day == c.stay_dates[c.i]
        available == /\ HasSupply(daily_supply, simulation_id, c.hotel_id, day)
                     /\ HasRoom(get_daily_supply(daily_supply, simulation_id,
                                                 c.hotel_id, day),
                                c.supplier_id, c.supplier_type)
    IN  /\ c.pc = "check"
        /\ calls' = [calls EXCEPT ![t] =
               IF ~available
               THEN [c EXCEPT !.pc = "done", !.returned = Some(NoBooking)]
               ELSE IF c.i = Len(c.stay_dates)
               THEN [c EXCEPT !.pc = "price", !.i = 1]
               ELSE [c EXCEPT !.i = @ + 1]]
        /\ UNCHANGED <<simulation_id, users, bookings, daily_supply,
                       bookings_collection, config, hotel_capacity, simulation_parameters, saved_run, last>>

\* second loop, one day: read the document and add the supplier's price
CalculatePrice(t) ==
    LET c == calls[t]
        day == c.stay_dates[c.i]
        total_price == c.total_price +
            DayPrice(get_daily_supply(daily_supply, simulation_id, c.hotel_id, day),
                     c.supplier_id, c.supplier_type)
    IN  /\ c.pc = "price"
        /\ calls' = [calls EXCEPT ![t] =
               IF c.i = Len(c.stay_dates)
               THEN [c EXCEPT !.pc = "read", !.i = 1, !.total_price = total_price,
                              !.price_per_night = Mean(total_price, Len(c.stay_dates))]
               ELSE [c EXCEPT !.i = @ + 1, !.total_price = total_price]]
        /\ UNCHANGED <<simulation_id, users, bookings, daily_supply,
                       bookings_collection, config, hotel_capacity, simulation_parameters, saved_run, last>>

\* third loop, one day, the read: the thread's own copy of the document
ReadDailySupply(t) ==
    LET c == calls[t]
        day == c.stay_dates[c.i]
    IN  /\ c.pc = "read"
        /\ calls' = [calls EXCEPT ![t] =
               [c EXCEPT !.pc = "save",
                         !.daily_supply = Some(get_daily_supply(daily_supply,
                                              simulation_id, c.hotel_id, day))]]
        /\ UNCHANGED <<simulation_id, users, bookings, daily_supply,
                       bookings_collection, config, hotel_capacity, simulation_parameters, saved_run, last>>

\* third loop, one day, the write: the decremented copy replaces the stored
\* document
SaveDailySupply(t) ==
    LET c == calls[t]
        day == c.stay_dates[c.i]
    IN  /\ c.pc = "save"
        /\ daily_supply' = _save_daily_supply(daily_supply, simulation_id, c.hotel_id,
               day, DecrementDay(c.daily_supply[1], c.supplier_id, c.supplier_type,
                                 c.price_per_night))
        /\ calls' = [calls EXCEPT ![t] =
               IF c.i = Len(c.stay_dates)
               THEN [c EXCEPT !.pc = "book", !.daily_supply = None]
               ELSE [c EXCEPT !.pc = "read", !.i = @ + 1, !.daily_supply = None]]
        /\ UNCHANGED <<simulation_id, users, bookings, bookings_collection,
                       config, hotel_capacity, simulation_parameters, saved_run, last>>

\* _save_booking and the return of the Booking
SaveBooking(t) ==
    LET c == calls[t]
        booking == [created |-> TRUE, simulation_id |-> simulation_id,
                    user_id |-> "walk-in", trip_id |-> t,
                    supplier_id |-> c.supplier_id, supplier_type |-> c.supplier_type,
                    booking_day |-> operational_start_day,
                    stay_dates |-> c.stay_dates,
                    price_per_night |-> c.price_per_night,
                    total_price |-> c.total_price, hotel_id |-> c.hotel_id]
    IN  /\ c.pc = "book"
        /\ bookings_collection' = bookings_collection (+) SetToBag({booking})
        /\ calls' = [calls EXCEPT ![t] =
               [c EXCEPT !.pc = "done", !.returned = Some(booking)]]
        /\ UNCHANGED <<simulation_id, users, bookings, daily_supply, config, hotel_capacity, simulation_parameters, saved_run, last>>

CallHotel(t) == \E hotel_id \in HotelIds, stay_dates \in ConcStays :
                   CallBookRoom(t, hotel_id, HOTEL, hotel_id, stay_dates)

CallAgent(t) == \E agent_id \in AgentIds, hotel_id \in HotelIds, stay_dates \in ConcStays :
                   CallBookRoom(t, agent_id, TRAVEL_AGENT, hotel_id, stay_dates)

\* Two threads, one book_room call each, on a ledger initialized for a
\* simulation without travellers
ConcNext ==
    \/ \E sim \in SimIds : GenerateDemand(sim, <<>>)
    \/ \E t \in Threads : CallHotel(t)
    \/ \E t \in Threads : CallAgent(t)
    \/ \E t \in Threads : CheckAvailability(t)
    \/ \E t \in Threads : CalculatePrice(t)
    \/ \E t \in Threads : ReadDailySupply(t)
    \/ \E t \in Threads : SaveDailySupply(t)
    \/ \E t \in Threads : SaveBooking(t)

ConcSpec == Init /\ [][ConcNext]_vars

----------------------------------------------------------------------------
(* generate_demand with the generator: called on a new simulator and again on *)
(* one that has generated travellers before.                                  *)

\* generate_demand(total_users, proportion_casual, simulation_id) with the
\* draws of its travellers
GenerateTravellers(sim, total_users, proportion_casual, casual_draws, business_draws) ==
    /\ Len(casual_draws) = num_casual(total_users, proportion_casual)
    /\ Len(business_draws) = total_users - Len(casual_draws)
    /\ \A k \in 1..Len(casual_draws) : CasualDrawProducible(casual_draws[k])
    /\ \A k \in 1..Len(business_draws) : BusinessDrawProducible(business_draws[k])
    /\ simulation_id' = sim
    /\ simulation_parameters' = SimulationParameters(sim, total_users, proportion_casual)
    /\ daily_supply' = initialize_simulation(daily_supply, sim)
    /\ users' = _generate_travellers(users, casual_draws, business_draws)
    /\ last' = [op |-> "generate_demand", total_users |-> total_users,
                proportion_casual |-> proportion_casual,
                again |-> (simulation_id # NoSimulation),
                trips |-> [k \in 1..Len(casual_draws) |->
                              [user_id |-> CasualIds[k],
                               num_trips |-> 2, trip_lengths |-> <<>>,
                               picks |-> casual_draws[k].picks,
                               trips |-> CasualTrips(casual_draws[k])]]
                          \o [k \in 1..Len(business_draws) |->
                                 [user_id |-> BusinessIds[k],
                                  num_trips |-> 5,
                                  trip_lengths |-> BusinessTripLengths(business_draws[k]),
                                  picks |-> business_draws[k].picks,
                                  trips |-> BusinessTrips(business_draws[k])]]]
    /\ UNCHANGED <<bookings, bookings_collection, config, hotel_capacity, saved_run, calls>>

\* the draws of the travellers of one call: any draw for the first traveller
\* of a kind, the first draw of the list for the others
DrawLists(n, draws, first) ==
    IF n = 0 THEN {<<>>}
    ELSE {<<d>> \o [k \in 1..(n - 1) |-> first] : d \in draws}

GenerateDemandCall ==
    \E sim \in SimIds, total_users \in 0..MaxUsers, proportion_casual \in Proportions :
        \E casual_draws \in DrawLists(num_casual(total_users, proportion_casual),
                                      CasualDraws, TypicalCasualDraw),
           business_draws \in DrawLists(total_users
                                          - num_casual(total_users, proportion_casual),
                                        BusinessDraws, TypicalBusinessDraw) :
            GenerateTravellers(sim, total_users, proportion_casual,
                               casual_draws, business_draws)

\* generate_demand on a new simulator
GenerateDemandFirst ==
    /\ simulation_id = NoSimulation
    /\ GenerateDemandCall

\* generate_demand once more on the simulator that has generated
GenerateDemandAgain ==
    /\ last.op = "generate_demand"
    /\ ~last.again
    /\ GenerateDemandCall

GenNext ==
    \/ GenerateDemandFirst
    \/ GenerateDemandAgain

GenSpec == Init /\ [][GenNext]_vars

----------------------------------------------------------------------------
(* The simulator driven through its whole interface: a run generated, shopped *)
(* day by day or in one go, saved, loaded into the simulator again and        *)
(* cleaned out of the store.                                                  *)

\* a call that raises: nothing but the history changes
Raises(call, error) ==
    /\ last' = [op |-> "raise", call |-> call, error |-> error]
    /\ UNCHANGED <<simulation_id, users, bookings, daily_supply, bookings_collection,
                   config, hotel_capacity, calls, simulation_parameters, saved_run>>

\* process_daily_shopping failing its precondition
ProcessDailyShoppingRaises ==
    /\ ~Initialized(simulation_id)
    /\ Raises("process_daily_shopping", "ValueError")

\* run_full_simulation on a simulator that has not booked yet
RunFullSimulation ==
    /\ Initialized(simulation_id)
    /\ bookings = <<>>
    /\ \E st \in {run_full_simulation(daily_supply, bookings_collection, users,
                                      bookings, simulation_id)} :
           /\ daily_supply' = st.store
           /\ bookings_collection' = st.collection
           /\ users' = st.users
           /\ bookings' = st.bookings
           /\ last' = [op |-> "run_full_simulation", days |-> st.days,
                       returned |-> get_simulation_statistics(st.store, st.collection,
                                                              simulation_id)]
    /\ UNCHANGED <<simulation_id, config, hotel_capacity, simulation_parameters, saved_run, calls>>

RunFullSimulationRaises ==
    /\ ~Initialized(simulation_id)
    /\ Raises("run_full_simulation", "ValueError")

\* get_statistics
GetStatistics ==
    /\ Initialized(simulation_id)
    /\ last' = [op |-> "get_statistics",
                returned |-> get_simulation_statistics(daily_supply, bookings_collection,
                                                       simulation_id)]
    /\ UNCHANGED <<simulation_id, users, bookings, daily_supply, bookings_collection,
                   config, hotel_capacity, calls, simulation_parameters, saved_run>>

GetStatisticsRaises ==
    /\ ~Initialized(simulation_id)
    /\ Raises("get_statistics", "ValueError")

\* save_run(filepath); one file is written in a run of the model
SaveRun ==
    /\ saved_run = None
    /\ saved_run' = Some(save_run(simulation_parameters, users))
    /\ last' = [op |-> "save_run"]
    /\ UNCHANGED <<simulation_id, users, bookings, daily_supply, bookings_collection,
                   config, hotel_capacity, calls, simulation_parameters>>

\* load_run(filepath) of the file written before
LoadRun ==
    /\ saved_run # None
    /\ \E loaded \in {load_run(saved_run[1])} :
           /\ simulation_parameters' = loaded.simulation_parameters
           /\ simulation_id' = loaded.simulation_id
           /\ users' = loaded.users
    /\ last' = [op |-> "load_run"]
    /\ UNCHANGED <<bookings, daily_supply, bookings_collection, config, hotel_capacity, calls,
                   saved_run>>

\* supply_manager.cleanup_simulation(sim)
CleanupSimulation(sim) ==
    /\ \E st \in {cleanup_simulation(daily_supply, bookings_collection, sim)} :
           /\ daily_supply' = st.store
           /\ bookings_collection' = st.collection
    /\ last' = [op |-> "cleanup_simulation"]
    /\ UNCHANGED <<simulation_id, users, bookings, config, hotel_capacity, calls,
                   simulation_parameters, saved_run>>

\* the traveller maps of the runs that are saved and loaded, and the days
\* they are shopped on one by one
SavedTravellerMaps == {MixedTravellers}
SavedRunDays == {-6, 1}

ApiNext ==
    \/ \E sim \in SimIds, generated \in SavedTravellerMaps :
           GenerateDemand(sim, generated)
    \/ \E simulation_day \in SavedRunDays : ProcessDailyShopping(simulation_day)
    \/ ProcessDailyShoppingRaises
    \/ RunFullSimulation
    \/ RunFullSimulationRaises
    \/ GetStatistics
    \/ GetStatisticsRaises
    \/ SaveRun
    \/ LoadRun
    \/ \E sim \in SimIds : CleanupSimulation(sim)

ApiSpec == Init /\ [][ApiNext]_vars

----------------------------------------------------------------------------
(* Single-supplier mode: one hotel with the same capacity on every day, and    *)
(* a table of prices per stay day that the caller supplies with every         *)
(* process_daily_prices call.  HotelDemandSimulator.process_daily_prices and  *)
(* HotelDemandSimulator.hotel_capacity are called by app.py and by the tests  *)
(* but are not part of simulator.py; they are modelled on the specification   *)
(* (4.4, 4.5 step 4) and on the acceptance test that _run_supplier_strategy   *)
(* repeats after each call.                                                    *)

\* hotel_capacity of generate_demand(total_users, proportion_casual, hotel_capacity)
Capacities == {1, 2}

\* the keys of a table of prices: str(day) for the days of the stays
PriceKeys == {ToString(day) : day \in OpDays}

\* {str(day): price for day in range(...)}
FixedPrices(price) == [key \in PriceKeys |-> price]

\* a table whose price rises by $3 with every day
RisingPrices == [key \in PriceKeys |->
                    CHOOSE price \in {1000 + 300 * day : day \in OpDays} :
                        \E day \in OpDays : key = ToString(day) /\ price = 1000 + 300 * day]

\* the tables process_daily_prices is called with
PriceTables == {FixedPrices(1300), FixedPrices(1400), RisingPrices}

\* the days process_daily_prices is called for
PriceDays == {-20, -7, -6, 1}

\* mean of the supplied prices over the stay, in units of 1/MeanScale
StayMeanPrice(daily_prices, stay_dates) ==
    Mean(SumSeq([i \in 1..Len(stay_dates) |-> daily_prices[ToString(stay_dates[i])]]),
         Len(stay_dates))

\* all(hotel_capacity.get(date, 0) > 0 for date in stay_dates)
CapacityAvailable(capacity, stay_dates) ==
    \A i \in 1..Len(stay_dates) :
        stay_dates[i] \in DOMAIN capacity /\ capacity[stay_dates[i]] > 0

\* the commit taking a room on the first night only
TakeCapacityFirstNight(capacity, stay_dates) ==
    [day \in DOMAIN capacity |->
        IF day = stay_dates[1] THEN capacity[day] - 1 ELSE capacity[day]]

\* the commit: the shared capacity decremented once per night of the stay
TakeCapacity(capacity, stay_dates) ==
    [day \in DOMAIN capacity |->
        IF \E i \in 1..Len(stay_dates) : stay_dates[i] = day
        THEN capacity[day] - 1
        ELSE capacity[day]]

\* step 4 of the day loop for one itinerary; st carries the loop's state and
\* st.evals the record of what was evaluated
EvaluateAtPrices(st, simulation_day, daily_prices, u, i) ==
    IF Skipped(st.users[u].itineraries[i], simulation_day) THEN st
    ELSE LET demand == MatchingDemands(st.users[u].itineraries[i], simulation_day)[1]
             stay_dates == Range(demand.stay_start_date, demand.stay_end_date)
             avg_price == StayMeanPrice(daily_prices, stay_dates)
             accepted == /\ avg_price <= demand.max_price_per_night * MeanScale
                         /\ CapacityAvailable(st.hotel_capacity, stay_dates)
         IN  IF accepted
             THEN [st EXCEPT
                     !.hotel_capacity = TakeCapacity(@, stay_dates),
                     !.users[u].itineraries[i] =
                         [@ EXCEPT !.is_booked = TRUE,
                                   !.booked_price_per_night = Some(avg_price)],
                     !.bookings_today =
                         Append(@, [user_id |-> st.users[u].user_id,
                                    booked_price_per_night |-> avg_price,
                                    stay_dates |-> [start_date |-> demand.stay_start_date,
                                                    end_date |-> demand.stay_end_date]]),
                     !.evals = Append(@, [pos |-> <<u, i>>, booked |-> TRUE])]
             ELSE [st EXCEPT !.evals = Append(@, [pos |-> <<u, i>>, booked |-> FALSE])]

RECURSIVE PricesLoop(_, _, _, _)
PricesLoop(st, simulation_day, daily_prices, positions) ==
    IF positions = <<>> THEN st
    ELSE PricesLoop(EvaluateAtPrices(st, simulation_day, daily_prices,
                                     Head(positions)[1], Head(positions)[2]),
                    simulation_day, daily_prices, Tail(positions))

\* process_daily_prices(simulation_day, daily_prices)
process_daily_prices(us, capacity, simulation_day, daily_prices) ==
    PricesLoop([users |-> us, hotel_capacity |-> capacity, bookings_today |-> <<>>,
                evals |-> <<>>],
               simulation_day, daily_prices, Positions(us, 1, 1, <<>>))

\* generate_demand of a new simulator in single-supplier mode
GenerateDemandCapacity(generated, capacity) ==
    /\ simulation_id = NoSimulation
    /\ hotel_capacity = <<>>
    /\ users = <<>>
    /\ users' = PutUsers(users, generated)
    /\ hotel_capacity' = [day \in OpDays |-> capacity]
    /\ simulation_parameters' = [empty |-> FALSE, total_users |-> Len(generated),
                                 hotel_capacity_per_day |-> capacity]
    /\ last' = [op |-> "generate_demand"]
    /\ UNCHANGED <<simulation_id, bookings, daily_supply, bookings_collection, config,
                   saved_run, calls>>

ProcessDailyPrices(simulation_day, daily_prices) ==
    /\ hotel_capacity # <<>>
    /\ \E st \in {process_daily_prices(users, hotel_capacity, simulation_day,
                                       daily_prices)} :
           /\ users' = st.users
           /\ hotel_capacity' = st.hotel_capacity
           /\ last' = [op |-> "process_daily_prices", day |-> simulation_day,
                       daily_prices |-> daily_prices, before |-> users,
                       capacity_before |-> hotel_capacity,
                       returned |-> st.bookings_today, evals |-> st.evals]
    /\ UNCHANGED <<simulation_id, bookings, daily_supply, bookings_collection, config,
                   simulation_parameters, saved_run, calls>>

SingleSupplierNext ==
    \/ \E generated \in TravellerMaps, capacity \in Capacities :
           GenerateDemandCapacity(generated, capacity)
    \/ \E simulation_day \in PriceDays, daily_prices \in PriceTables :
           ProcessDailyPrices(simulation_day, daily_prices)

SingleSupplierSpec == Init /\ [][SingleSupplierNext]_vars

----------------------------------------------------------------------------
(* calculate_hotel_price called directly, for hotels with and without their   *)
(* own multipliers and for lead times on both sides of every bucket boundary  *)

PricedHotel(base_price, dynamic_pricing_config) ==
    [hotel_id |-> "h1", total_rooms |-> 1, base_price |-> base_price,
     dynamic_pricing_config |-> dynamic_pricing_config]

\* hotels with the default multipliers, with some of their own and with all
\* four of their own
PricedHotels ==
    {PricedHotel(10000, DefaultPricingConfig),
     PricedHotel(8550, [lead_time_0_7 |-> 20]),
     PricedHotel(10000, [lead_time_8_14 |-> 12, lead_time_31_plus |-> 9]),
     PricedHotel(10000, [lead_time_15_30 |-> 10]),
     PricedHotel(8550, [lead_time_0_7 |-> 14, lead_time_8_14 |-> 12,
                        lead_time_15_30 |-> 11, lead_time_31_plus |-> 8])}

\* the days the price is asked on: lead times to day 0 of 40, 31, 30, 29, 15,
\* 14, 13, 8, 7, 6 and 0 days, and a day after the stay
PricingDays == {-40, -31, -30, -29, -15, -14, -13, -8, -7, -6, 0, 1}

PriceInit ==
    /\ simulation_id = NoSimulation
    /\ users = <<>>
    /\ bookings = <<>>
    /\ daily_supply = <<>>
    /\ bookings_collection = EmptyBag
    /\ config \in SupplyConfigs
    /\ last \in {[op |-> "init", hotel |-> hotel, current_day |-> current_day,
                  stay_day |-> stay_day] :
                    hotel \in PricedHotels, current_day \in PricingDays,
                    stay_day \in OpDays}
    /\ calls = [t \in Threads |-> IdleCall]
    /\ simulation_parameters = NoParameters
    /\ saved_run = None
    /\ hotel_capacity = <<>>

CalculateHotelPrice ==
    /\ last.op = "init"
    /\ last' = [op |-> "calculate_hotel_price", hotel |-> last.hotel,
                current_day |-> last.current_day, stay_day |-> last.stay_day,
                returned |-> calculate_hotel_price(last.hotel, last.current_day,
                                                   last.stay_day)]
    /\ UNCHANGED <<simulation_id, users, bookings, daily_supply, bookings_collection,
                   config, calls, simulation_parameters, saved_run, hotel_capacity>>

PriceNext == CalculateHotelPrice

PriceSpec == PriceInit /\ [][PriceNext]_vars

----------------------------------------------------------------------------
(* load_run of saved runs that were edited after save_run wrote them: members  *)
(* added at the top level, to the itinerary records and to the demand         *)
(* records, and the optional booked members removed                           *)

\* the parameters of Demand
DemandKeys == {"shopping_date", "stay_start_date", "stay_end_date", "max_price_per_night"}

\* Demand(**d) raises TypeError on an unexpected or a missing keyword argument
DemandRaises(d) == {d.members[m][1] : m \in 1..Len(d.members)} # DemandKeys

WithMember(obj, key, value) == JsonObject(Append(obj.members, <<key, value>>))

WithoutMembers(obj, keys) ==
    JsonObject(SelectSeq(obj.members, LAMBDA m : m[1] \notin keys))

\* the optional members of an itinerary record
BookedKeys == {"is_booked", "booked_price_per_night", "booked_supplier_id",
               "booked_supplier_type", "booked_hotel_id"}

\* an itinerary record with a member added to it or to its demand records, or
\* without its optional members
EditedItineraryData(itinerary_data, in_itinerary, in_demand, no_booked) ==
    LET kept == IF no_booked THEN WithoutMembers(itinerary_data, BookedKeys)
                ELSE itinerary_data
        noted == IF in_itinerary THEN WithMember(kept, "notes", "late arrival") ELSE kept
    IN  JsonObject([m \in 1..Len(noted.members) |->
            IF noted.members[m][1] = "demands" /\ in_demand
            THEN <<"demands", [d \in 1..Len(noted.members[m][2]) |->
                                  WithMember(noted.members[m][2][d], "currency", "USD")]>>
            ELSE noted.members[m]])

EditedFile(file, at_top, in_itinerary, in_demand, no_booked) ==
    LET edited ==
            [simulation_parameters |-> file.simulation_parameters,
             users |-> JsonObject([u \in 1..Len(file.users.members) |->
                 <<file.users.members[u][1],
                   [i \in 1..Len(file.users.members[u][2]) |->
                       EditedItineraryData(file.users.members[u][2][i],
                                           in_itinerary, in_demand, no_booked)]>>])]
    IN  IF at_top THEN edited @@ [exported_by |-> "dashboard"] ELSE edited

\* a traveller map whose first itinerary is booked
FirstBooked(us) ==
    [us EXCEPT ![1].itineraries[1] =
        [@ EXCEPT !.is_booked = TRUE,
                  !.booked_price_per_night = Some(1300 * MeanScale),
                  !.booked_supplier_id = Some("h1"),
                  !.booked_supplier_type = Some(HOTEL),
                  !.booked_hotel_id = Some("h1")]]

\* the files load_run is given
EditedFiles ==
    {EditedFile(save_run(GeneratedParameters("sim_1", us), us),
                at_top, in_itinerary, in_demand, no_booked) :
        us \in TravellerMaps \cup {FirstBooked(generated) : generated \in TravellerMaps},
        at_top \in BOOLEAN, in_itinerary \in BOOLEAN, in_demand \in BOOLEAN,
        no_booked \in BOOLEAN}

\* building the Itinerary of a record raises: KeyError when the record has no
\* "demands" or no "trip_id", TypeError when Demand(**d) does
ItineraryRaises(itinerary_data) ==
    IF ~JsonHas(itinerary_data, "demands") THEN "KeyError"
    ELSE IF \E d \in 1..Len(JsonMember(itinerary_data, "demands")) :
                DemandRaises(JsonMember(itinerary_data, "demands")[d])
    THEN "TypeError"
    ELSE IF ~JsonHas(itinerary_data, "trip_id") THEN "KeyError"
    ELSE "none"

\* the first record of the list that raises, 0 when none does
FirstRaising(user_data) ==
    LET raising == {i \in 1..Len(user_data) : ItineraryRaises(user_data[i]) # "none"}
    IN  IF raising = {} THEN 0 ELSE CHOOSE i \in raising : \A j \in raising : i <= j

\* load_run of any file: the error it raises and the fields it has assigned
\* when it returns or raises.  Without "simulation_parameters" nothing is
\* assigned; after that the parameters and the id are assigned and self.users
\* is emptied before data["users"] is read; the travellers before the one
\* whose record raises have been put into self.users
load_run_file(data) ==
    IF "simulation_parameters" \notin DOMAIN data
    THEN [raised |-> "KeyError", assigned |-> FALSE,
          simulation_parameters |-> NoParameters, simulation_id |-> NoSimulation,
          users |-> <<>>]
    ELSE IF "users" \notin DOMAIN data
    THEN [raised |-> "KeyError", assigned |-> TRUE,
          simulation_parameters |-> data.simulation_parameters,
          simulation_id |-> LoadedSimulationId(data.simulation_parameters),
          users |-> <<>>]
    ELSE
    LET members == data.users.members
        raising == {u \in 1..Len(members) : FirstRaising(members[u][2]) # 0}
        first == IF raising = {} THEN 0
                 ELSE CHOOSE u \in raising : \A v \in raising : u <= v
        loaded == IF first = 0 THEN Len(members) ELSE first - 1
    IN  [raised |-> IF first = 0 THEN "none"
                    ELSE ItineraryRaises(members[first][2][FirstRaising(members[first][2])]),
         assigned |-> TRUE,
         simulation_parameters |-> data.simulation_parameters,
         simulation_id |-> LoadedSimulationId(data.simulation_parameters),
         users |-> PutUsers(<<>>,
                      [u \in 1..loaded |->
                          User(members[u][1],
                               [i \in 1..Len(members[u][2]) |->
                                   ItineraryFromData(members[u][1], members[u][2][i])])])]

LoadInit ==
    /\ simulation_id = NoSimulation
    /\ users = <<>>
    /\ bookings = <<>>
    /\ daily_supply = <<>>
    /\ bookings_collection = EmptyBag
    /\ config \in SupplyConfigs
    /\ last = [op |-> "init"]
    /\ calls = [t \in Threads |-> IdleCall]
    /\ simulation_parameters = NoParameters
    /\ saved_run \in {Some(file) : file \in EditedFiles}
    /\ hotel_capacity = <<>>

\* load_run(filepath) on a new simulator
LoadRunFile ==
    /\ last.op = "init"
    /\ saved_run # None
    /\ \E loaded \in {load_run_file(saved_run[1])} :
           /\ loaded.assigned
           /\ simulation_parameters' = loaded.simulation_parameters
           /\ simulation_id' = loaded.simulation_id
           /\ users' = loaded.users
           /\ last' = [op |-> "load_run", raised |-> loaded.raised]
    /\ UNCHANGED <<bookings, daily_supply, bookings_collection, config, hotel_capacity,
                   calls, saved_run>>

LoadNext == LoadRunFile

LoadSpec == LoadInit /\ [][LoadNext]_vars

----------------------------------------------------------------------------
(* generate_demand called again on a simulator whose earlier run has booked   *)

\* the traveller maps of the earlier and of the later run, and the days that
\* are shopped
RerunTravellerMaps == {MixedTravellers, ContendingTravellers}
RerunDays == {-10, -6}

\* generate_demand(total_users, proportion_casual, simulation_id) on a
\* simulator that has booked: the id and the parameters are assigned, the
\* ledger is initialized and the generated travellers are put into self.users
GenerateDemandOnUsed(sim, generated) ==
    /\ simulation_id # NoSimulation
    /\ Len(bookings) \in 1..MaxBookings
    /\ simulation_id' = sim
    /\ daily_supply' = initialize_simulation(daily_supply, sim)
    /\ users' = PutUsers(users, generated)
    /\ last' = [op |-> "generate_demand", before |-> users, generated |-> generated]
    /\ simulation_parameters' = GeneratedParameters(sim, generated)
    /\ UNCHANGED <<bookings, bookings_collection, config, hotel_capacity, saved_run, calls>>

RerunNext ==
    \/ \E sim \in SimIds, generated \in RerunTravellerMaps : GenerateDemand(sim, generated)
    \/ \E simulation_day \in RerunDays : ProcessDailyShopping(simulation_day)
    \/ \E sim \in SimIds, generated \in RerunTravellerMaps :
           GenerateDemandOnUsed(sim, generated)

RerunSpec == Init /\ [][RerunNext]_vars

----------------------------------------------------------------------------

(* A run that processes its days in ascending order, as the loop of           *)
(* run_full_simulation does, one process_daily_shopping call per step         *)

\* the days of the run that are processed: around the ends of the lead-time
\* buckets of the first stay day, and a day inside the window
AscendingDays == {-20, -14, -12, -10, -7, -6, 0, 1}

\* process_daily_shopping(simulation_day) for a day after the day of the call
\* before it
ProcessLaterDay(simulation_day) ==
    /\ \/ last.op = "generate_demand"
       \/ last.op = "process_daily_shopping" /\ simulation_day > last.day
    /\ ProcessDailyShopping(simulation_day)

AscendingNext ==
    \/ \E sim \in SimIds, generated \in TravellerMaps : GenerateDemand(sim, generated)
    \/ \E simulation_day \in AscendingDays : ProcessLaterDay(simulation_day)

AscendingSpec == Init /\ [][AscendingNext]_vars

----------------------------------------------------------------------------

(* load_run of a file on a simulator that has generated a run                 *)

\* the file without one member of the first itinerary record of traveller u
WithoutItineraryMember(file, u, key) ==
    [file EXCEPT !.users =
        JsonObject([v \in 1..Len(file.users.members) |->
            IF v # u THEN file.users.members[v]
            ELSE <<file.users.members[v][1],
                   [i \in 1..Len(file.users.members[v][2]) |->
                       IF i = 1
                       THEN WithoutMembers(file.users.members[v][2][i], {key})
                       ELSE file.users.members[v][2][i]]>>])]

\* the run of another simulation as save_run writes it
OtherRun == save_run(GeneratedParameters("sim_0", ExhaustingTravellers),
                     ExhaustingTravellers)

\* the files load_run is given on the used simulator: the saved run, the run
\* with an itinerary record that lacks trip_id or demands or has a demand with
\* an unknown member, and the run without its users or its
\* simulation_parameters
ReloadedFiles ==
    {OtherRun}
    \cup {WithoutItineraryMember(OtherRun, u, key) :
             u \in 1..Len(OtherRun.users.members), key \in {"trip_id", "demands"}}
    \cup {EditedFile(OtherRun, FALSE, FALSE, TRUE, FALSE)}
    \cup {[simulation_parameters |-> OtherRun.simulation_parameters]}
    \cup {[users |-> OtherRun.users]}

\* load_run(filepath) on a simulator that has generated its travellers
LoadFile(data) ==
    /\ simulation_id # NoSimulation
    /\ \E loaded \in {load_run_file(data)} :
           /\ simulation_parameters' = IF loaded.assigned THEN loaded.simulation_parameters
                                       ELSE simulation_parameters
           /\ simulation_id' = IF loaded.assigned THEN loaded.simulation_id
                               ELSE simulation_id
           /\ users' = IF loaded.assigned THEN loaded.users ELSE users
           /\ last' = [op |-> "load_run", raised |-> loaded.raised,
                       before |-> [simulation_parameters |-> simulation_parameters,
                                   simulation_id |-> simulation_id,
                                   users |-> users]]
    /\ UNCHANGED <<bookings, daily_supply, bookings_collection, config, hotel_capacity,
                   calls, saved_run>>

ReloadNext ==
    \/ \E sim \in SimIds, generated \in TravellerMaps : GenerateDemand(sim, generated)
    \/ \E data \in ReloadedFiles : LoadFile(data)

ReloadSpec == Init /\ [][ReloadNext]_vars

----------------------------------------------------------------------------

(* Properties *)

AllPositions(us) ==
    UNION {{<<u, i>> : i \in 1..Len(us[u].itineraries)} : u \in 1..Len(us)}

ItineraryAt(us, pos) == us[pos[1]].itineraries[pos[2]]

\* the Booking documents of the store made for one itinerary
BookingsOf(user_id, trip_id) ==
    {b \in BagToSet(bookings_collection) : b.user_id = user_id /\ b.trip_id = trip_id}

\* no itinerary has two Booking documents, nor two entries in simulator.bookings
AtMostOneBooking ==
    \A pos \in AllPositions(users) :
        LET it == ItineraryAt(users, pos)
            docs == BookingsOf(it.user_id, it.trip_id)
        IN  /\ Cardinality(docs) <= 1
            /\ \A b \in docs : CopiesIn(b, bookings_collection) = 1
            /\ it.is_booked <=> docs # {}

\* process_daily_shopping evaluates no itinerary that was booked before the call
NoBookedEvaluated ==
    last.op = "process_daily_shopping" =>
        \A k \in 1..Len(last.evals) : ~ItineraryAt(last.before, last.evals[k].pos).is_booked

\* a booked itinerary keeps its place and all its fields
BookedIsFinal ==
    \A pos \in AllPositions(users) :
        ItineraryAt(users, pos).is_booked =>
            /\ pos \in AllPositions(users')
            /\ ItineraryAt(users', pos) = ItineraryAt(users, pos)

\* C1: across any sequence of process_daily_shopping calls, in any order and
\* with repeated days, every itinerary is booked at most once: a booked
\* itinerary is never evaluated again and never changes, and the store holds
\* at most one Booking for it.
C1_BookedAtMostOnce ==
    /\ [](AtMostOneBooking /\ NoBookedEvaluated)
    /\ [][BookedIsFinal]_vars

\* a day was processed on which an itinerary booked earlier had a demand
C1_Witness ==
    /\ last.op = "process_daily_shopping"
    /\ \E pos \in AllPositions(last.before) :
          /\ ItineraryAt(last.before, pos).is_booked
          /\ MatchingDemands(ItineraryAt(last.before, pos), last.day) # <<>>

----------------------------------------------------------------------------
(* The supply ledger *)

SupplyKeys == DOMAIN daily_supply

Allocations(k) == daily_supply[k].travel_agent_allocations

NoNegativeRooms ==
    \A k \in SupplyKeys :
        /\ daily_supply[k].hotel_rooms_remaining >= 0
        /\ \A i \in 1..Len(Allocations(k)) : Allocations(k)[i].rooms_remaining >= 0

NoRoomIncrease ==
    \A k \in SupplyKeys :
        /\ k \in DOMAIN daily_supply'
        /\ daily_supply'[k].hotel_rooms_remaining <= daily_supply[k].hotel_rooms_remaining
        /\ Len(daily_supply'[k].travel_agent_allocations) = Len(Allocations(k))
        /\ \A i \in 1..Len(Allocations(k)) :
              daily_supply'[k].travel_agent_allocations[i].rooms_remaining
                 <= Allocations(k)[i].rooms_remaining

\* C2: after any sequence of book_room calls on an initialized simulation no
\* hotel_rooms_remaining and no allocation's rooms_remaining is negative, and
\* neither ever increases.
C2_MonotonicInventory ==
    /\ []NoNegativeRooms
    /\ [][NoRoomIncrease]_vars

RECURSIVE RoomsAllocated(_)
RoomsAllocated(allocs) ==
    IF allocs = <<>> THEN 0 ELSE Head(allocs).rooms_allocated + RoomsAllocated(Tail(allocs))

\* C4: for every (hotel, day), hotel_rooms_remaining plus the rooms allocated
\* to travel agents is at most hotel_rooms_total, and every allocation has
\* rooms_remaining <= rooms_allocated.
C4_AllocationWithinTotal ==
    \A k \in SupplyKeys :
        /\ daily_supply[k].hotel_rooms_remaining + RoomsAllocated(Allocations(k))
              <= daily_supply[k].hotel_rooms_total
        /\ \A i \in 1..Len(Allocations(k)) :
              Allocations(k)[i].rooms_remaining <= Allocations(k)[i].rooms_allocated

\* a day with two allocations on which the hotel and the agent have both sold
C4_Witness ==
    \E k \in SupplyKeys :
        /\ Len(Allocations(k)) >= 2
        /\ daily_supply[k].hotel_rooms_remaining + RoomsAllocated(Allocations(k))
              < daily_supply[k].hotel_rooms_total
        /\ \E i \in 1..Len(Allocations(k)) :
              Allocations(k)[i].rooms_remaining < Allocations(k)[i].rooms_allocated

\* some day of the stay has no document or no room left for the supplier
SomeDayFails(supplier_id, supplier_type, hotel_id, stay_dates) ==
    \E i \in 1..Len(stay_dates) :
        LET k == Key(simulation_id, hotel_id, stay_dates[i])
        IN  \/ k \notin SupplyKeys
            \/ supplier_type = HOTEL /\ daily_supply[k].hotel_rooms_remaining <= 0
            \/ /\ supplier_type = TRAVEL_AGENT
               /\ \A j \in 1..Len(Allocations(k)) :
                     \/ Allocations(k)[j].supplier_id # supplier_id
                     \/ Allocations(k)[j].rooms_remaining <= 0

\* the suppliers book_room is called with: each hotel directly, each agent on
\* each hotel
Suppliers ==
    {<<h, HOTEL, h>> : h \in HotelIds} \cup
    {<<a, TRAVEL_AGENT, h>> : a \in AgentIds, h \in HotelIds}

\* C5: a book_room call that finds a day of the stay without a supply record
\* or without a room for the supplier returns None and changes no DailySupply
\* and no stored booking, also on the days that had rooms.
C5_FailedBookingChangesNothing ==
    simulation_id # NoSimulation =>
        \A sup \in Suppliers, stay_dates \in CallStays :
            SomeDayFails(sup[1], sup[2], sup[3], stay_dates) =>
                book_room(daily_supply, bookings_collection, simulation_id,
                          sup[1], sup[2], sup[3], operational_start_day,
                          stay_dates, "walk-in", 0)
                  = [booking |-> NoBooking, store |-> daily_supply,
                     collection |-> bookings_collection]

\* a book_room call has just failed on a stay of which some day had a room
C5_Witness ==
    /\ last.op = "book_room"
    /\ ~last.returned.created
    /\ last.some_day_available

----------------------------------------------------------------------------
(* Offers *)

\* the maximum prices get_best_offer is asked with
MaxPrices == {1000, 1299, 1300, 1400, 1500}

HotelIndex(hotel_id) == CHOOSE h \in 1..Len(Hotels) : Hotels[h].hotel_id = hotel_id
AgentIndex(agent_id) == CHOOSE a \in 1..Len(TravelAgents) : TravelAgents[a].agent_id = agent_id

\* the supplier has a room left on every day of the stay: the hotel in its own
\* stock, the agent in some allocation it holds on the hotel
HasInventory(store, sim, sup, stay_dates) ==
    \A i \in 1..Len(stay_dates) :
        LET k == Key(sim, sup[3], stay_dates[i])
        IN  /\ k \in DOMAIN store
            /\ IF sup[2] = HOTEL
               THEN store[k].hotel_rooms_remaining > 0
               ELSE \E j \in 1..Len(store[k].travel_agent_allocations) :
                       /\ store[k].travel_agent_allocations[j].supplier_id = sup[1]
                       /\ store[k].travel_agent_allocations[j].rooms_remaining > 0

\* the supplier's price for one day when shopping on current_day: the hotel's
\* lead-time price, the agent's cost-plus-margin price
SupplierDayPrice(store, sim, sup, current_day, stay_day) ==
    IF sup[2] = HOTEL
    THEN calculate_hotel_price(get_hotel_by_id(sup[3]), current_day, stay_day)
    ELSE LET ds == store[Key(sim, sup[3], stay_day)]
         IN  calculate_travel_agent_price(get_travel_agent_by_id(sup[1]),
                ds.travel_agent_allocations[FirstAllocation(ds, sup[1])].cost_basis)

\* the supplier's mean price over the stay, in units of 1/MeanScale
SupplierMean(store, sim, sup, current_day, stay_dates) ==
    Mean(SumSeq([i \in 1..Len(stay_dates) |->
            SupplierDayPrice(store, sim, sup, current_day, stay_dates[i])]),
         Len(stay_dates))

\* the supplier qualifies for the demand: inventory on every day of the stay
\* at a mean price within the maximum
Qualifies(store, sim, sup, current_day, stay_dates, max_price_per_night) ==
    /\ HasInventory(store, sim, sup, stay_dates)
    /\ SupplierMean(store, sim, sup, current_day, stay_dates)
          <= max_price_per_night * MeanScale

OfferSupplier(offer) == <<offer.supplier_id, offer.supplier_type, offer.hotel_id>>

BestOfferIsCheapestValid(store, sim, current_day, stay_dates, max_price_per_night) ==
    LET best == get_best_offer(store, sim, current_day, stay_dates, max_price_per_night)
        qualifying == {sup \in Suppliers :
                          Qualifies(store, sim, sup, current_day, stay_dates,
                                    max_price_per_night)}
    IN  IF best.available
        THEN /\ OfferSupplier(best) \in qualifying
             /\ best.avg_price = SupplierMean(store, sim, OfferSupplier(best),
                                              current_day, stay_dates)
             /\ \A sup \in qualifying :
                   best.avg_price <= SupplierMean(store, sim, sup, current_day, stay_dates)
        ELSE qualifying = {}

\* C6: get_best_offer returns an offer only of a supplier with inventory on
\* every stay day at a mean price <= max_price_per_night, returns None only
\* when no supplier qualifies, and no qualifying supplier is strictly cheaper
\* than the one returned.
C6_BestOfferIsCheapestValid ==
    simulation_id # NoSimulation =>
        \A current_day \in ProcessDays, stay_dates \in Stays, max_price \in MaxPrices :
            BestOfferIsCheapestValid(daily_supply, simulation_id, current_day,
                                     stay_dates, max_price)

\* the offers that the evaluation accepts, by supplier
ValidOffer(store, sim, sup, current_day, stay_dates, max_price_per_night) ==
    IF sup[2] = HOTEL
    THEN _evaluate_hotel_offer(store, sim, get_hotel_by_id(sup[3]), current_day,
                               stay_dates, max_price_per_night)
    ELSE _evaluate_travel_agent_offer(store, sim, get_travel_agent_by_id(sup[1]),
                               get_hotel_by_id(sup[3]), current_day, stay_dates,
                               max_price_per_night)

\* the accepted offers with the lowest mean price
LowestOffers(store, sim, current_day, stay_dates, max_price_per_night) ==
    LET valid == {sup \in Suppliers :
                     ValidOffer(store, sim, sup, current_day, stay_dates,
                                max_price_per_night).available}
        avg(sup) == ValidOffer(store, sim, sup, current_day, stay_dates,
                               max_price_per_night).avg_price
    IN  {sup \in valid : \A other \in valid : avg(sup) <= avg(other)}

\* hotels before resellers: the hotels' direct offers in configured order,
\* then the resellers' offers
HotelsFirstRank(sup) ==
    IF sup[2] = HOTEL THEN HotelIndex(sup[3])
    ELSE Len(Hotels) + (HotelIndex(sup[3]) - 1) * Len(TravelAgents) + AgentIndex(sup[1])

\* hotel by hotel in configured order: the hotel's direct offer, then the
\* resellers' offers on that hotel
EvaluationRank(sup) ==
    (HotelIndex(sup[3]) - 1) * (Len(TravelAgents) + 1)
       + (IF sup[2] = HOTEL THEN 0 ELSE AgentIndex(sup[1]))

\* C7 as claimed: among the valid offers tied for the lowest mean price a
\* hotel-direct offer wins over every reseller offer, also over a reseller
\* offer on an earlier hotel, and the earliest hotel wins among hotels.
C7_HotelsBeforeResellers ==
    simulation_id # NoSimulation =>
        \A current_day \in ProcessDays, stay_dates \in Stays, max_price \in MaxPrices :
            LET best == get_best_offer(daily_supply, simulation_id, current_day,
                                       stay_dates, max_price)
                lowest == LowestOffers(daily_supply, simulation_id, current_day,
                                       stay_dates, max_price)
            IN  best.available =>
                   /\ OfferSupplier(best) \in lowest
                   /\ \A sup \in lowest :
                         HotelsFirstRank(OfferSupplier(best)) <= HotelsFirstRank(sup)

\* C7 as amended: among the valid offers tied for the lowest mean price the
\* one evaluated first wins, hotel by hotel in configured order with each
\* hotel's direct offer ahead of the resellers' offers on that hotel.
C7_TieByEvaluationOrder ==
    simulation_id # NoSimulation =>
        \A current_day \in ProcessDays, stay_dates \in Stays, max_price \in MaxPrices :
            LET best == get_best_offer(daily_supply, simulation_id, current_day,
                                       stay_dates, max_price)
                lowest == LowestOffers(daily_supply, simulation_id, current_day,
                                       stay_dates, max_price)
            IN  /\ best.available <=> lowest # {}
                /\ best.available =>
                      /\ OfferSupplier(best) \in lowest
                      /\ \A sup \in lowest :
                            EvaluationRank(OfferSupplier(best)) <= EvaluationRank(sup)

\* a reseller's offer on the first hotel was selected while a later hotel's
\* direct offer was valid at the same mean price
C7_Witness ==
    /\ last.op = "process_daily_shopping"
    /\ \E k \in 1..Len(last.evals) :
          LET e == last.evals[k]
              stay_dates == Range(e.demand.stay_start_date, e.demand.stay_end_date)
              lowest == LowestOffers(e.store, simulation_id, last.day, stay_dates,
                                     e.demand.max_price_per_night)
          IN  /\ e.offer.available
              /\ e.offer.supplier_type = TRAVEL_AGENT
              /\ \E sup \in lowest :
                    /\ sup[2] = HOTEL
                    /\ HotelIndex(sup[3]) > HotelIndex(e.offer.hotel_id)

----------------------------------------------------------------------------
(* Concurrent bookings *)

\* no thread is inside book_room
Quiescent == \A t \in Threads : calls[t].pc \in {"idle", "done"}

\* the stored bookings made with the hotel itself that cover the day of k
DirectBookings(k) ==
    LET covering == {b \in BagToSet(bookings_collection) :
                        /\ b.supplier_type = HOTEL
                        /\ b.hotel_id = k[2]
                        /\ \E i \in 1..Len(b.stay_dates) : b.stay_dates[i] = k[3]}
    IN  BagCardinality([b \in covering |-> CopiesIn(b, bookings_collection)])

\* C3: two book_room calls whose store reads and writes interleave do not
\* both take the last room of a hotel-day: its remaining count never drops
\* below 0, and once both calls are over it is the count before the calls
\* less one per booking made, so no decrement is lost.
C3_NoConcurrentOverbooking ==
    \A k \in SupplyKeys :
        /\ daily_supply[k].hotel_rooms_remaining >= 0
        /\ Quiescent =>
              daily_supply[k].hotel_rooms_remaining =
                 daily_supply[k].hotel_rooms_total
                    - RoomsAllocated(Allocations(k)) - DirectBookings(k)

----------------------------------------------------------------------------
(* Shopping *)

\* the supplier has a price for every day of the stay
HasPrice(store, sim, sup, stay_dates) ==
    \A i \in 1..Len(stay_dates) :
        /\ HasSupply(store, sim, sup[3], stay_dates[i])
        /\ sup[2] = TRAVEL_AGENT =>
              FirstAllocation(get_daily_supply(store, sim, sup[3], stay_dates[i]),
                              sup[1]) # 0

\* the mean of the stored per-day prices of the supplier over the stay
StoredMean(store, sim, sup, stay_dates) ==
    Mean(SumSeq([i \in 1..Len(stay_dates) |->
            DayPrice(get_daily_supply(store, sim, sup[3], stay_dates[i]),
                     sup[1], sup[2])]),
         Len(stay_dates))

EvalStay(e) == Range(e.demand.stay_start_date, e.demand.stay_end_date)

\* C8: every booking made by process_daily_shopping has price_per_night, the
\* mean of the stored per-day prices of the chosen supplier over the stay,
\* equal to the avg_price of the selected offer and <= the demand's
\* max_price_per_night, and the itinerary records that price; if every
\* supplier's mean price exceeds the maximum the itinerary is not booked.
C8_BookingPriceWithinMax ==
    last.op = "process_daily_shopping" =>
        \A k \in 1..Len(last.evals) :
            LET e == last.evals[k]
                stay_dates == EvalStay(e)
            IN  /\ e.booking.created =>
                      /\ e.booking.price_per_night = e.offer.avg_price
                      /\ e.booking.price_per_night =
                            StoredMean(e.store, simulation_id,
                                       OfferSupplier(e.offer), stay_dates)
                      /\ e.booking.price_per_night
                            <= e.demand.max_price_per_night * MeanScale
                      /\ ItineraryAt(users, e.pos).booked_price_per_night
                            = Some(e.booking.price_per_night)
                /\ (\A sup \in Suppliers :
                       HasPrice(e.store, simulation_id, sup, stay_dates) =>
                          SupplierMean(e.store, simulation_id, sup, last.day, stay_dates)
                             > e.demand.max_price_per_night * MeanScale)
                      => ~e.booking.created

\* a booking was made with a hotel at its repriced rate, and another demand
\* of the same call was turned down
C8_Witness ==
    /\ last.op = "process_daily_shopping"
    /\ \E k \in 1..Len(last.evals) :
          /\ last.evals[k].booking.created
          /\ last.evals[k].booking.supplier_type = HOTEL
          /\ last.evals[k].booking.price_per_night
                # get_hotel_by_id(last.evals[k].booking.hotel_id).base_price * MeanScale
    /\ \E k \in 1..Len(last.evals) : ~last.evals[k].booking.created

NoCapacityLeft(store) ==
    \A k \in DOMAIN store :
        /\ store[k].hotel_rooms_remaining = 0
        /\ \A j \in 1..Len(store[k].travel_agent_allocations) :
              store[k].travel_agent_allocations[j].rooms_remaining = 0

\* the ledger with the remaining capacity forced to zero on all days; a ledger
\* that has no capacity left is not changed
ZeroCapacity(store) ==
    [k \in DOMAIN store |->
        [store[k] EXCEPT
            !.hotel_rooms_remaining = 0,
            !.travel_agent_allocations =
                [j \in 1..Len(@) |-> [@[j] EXCEPT !.rooms_remaining = 0]]]]

\* C9: with hotel_rooms_remaining = 0 for every hotel and rooms_remaining = 0
\* for every allocation on all days, process_daily_shopping on any day finds
\* no offer for any demand, returns an empty booking list and books no
\* itinerary.
C9_NoCapacityNoBooking ==
    simulation_id # NoSimulation =>
        \A simulation_day \in ProcessDays :
            LET st == process_daily_shopping(ZeroCapacity(daily_supply),
                                             bookings_collection, users, bookings,
                                             simulation_id, simulation_day)
            IN  /\ NoCapacityLeft(ZeroCapacity(daily_supply))
                /\ st.bookings_today = <<>>
                /\ st.users = users
                /\ st.bookings = bookings
                /\ st.collection = bookings_collection
                /\ \A k \in 1..Len(st.evals) : ~st.evals[k].offer.available

\* a call that evaluated demands on a ledger without any room left
C9_Witness ==
    /\ simulation_id # NoSimulation
    /\ NoCapacityLeft(daily_supply)
    /\ last.op = "process_daily_shopping"
    /\ last.demands_checked > 0
    /\ last.returned = <<>>

\* C10: an itinerary evaluated by process_daily_shopping while some supplier
\* has inventory on every stay night at a mean price <= the demand's maximum
\* is booked during that call, and book_room does not fail for the offer that
\* get_best_offer has just returned.
C10_QualifyingDemandIsBooked ==
    last.op = "process_daily_shopping" =>
        \A k \in 1..Len(last.evals) :
            LET e == last.evals[k]
            IN  /\ (\E sup \in Suppliers :
                       Qualifies(e.store, simulation_id, sup, last.day, EvalStay(e),
                                 e.demand.max_price_per_night))
                      => e.booking.created
                /\ e.offer.available => e.booking.created

----------------------------------------------------------------------------
(* Capacity *)

\* the stored bookings on the hotel, made with any supplier, whose stay
\* covers the day
BookingsCovering(hotel_id, day) ==
    LET covering == {b \in BagToSet(bookings_collection) :
                        /\ b.hotel_id = hotel_id
                        /\ \E i \in 1..Len(b.stay_dates) : b.stay_dates[i] = day}
    IN  BagCardinality([b \in covering |-> CopiesIn(b, bookings_collection)])

\* the room-nights of all stored bookings
BookedRoomNights ==
    LET stored == BagToSet(bookings_collection)
    IN  BagCardinality([b \in stored |->
                           CopiesIn(b, bookings_collection) * Len(b.stay_dates)])

TotalRooms == SumSeq([h \in 1..Len(Hotels) |-> Hotels[h].total_rooms])

\* C11: for every hotel and every stay day the bookings whose stay covers the
\* day are at most the hotel's total_rooms, and the booked room-nights are at
\* most the total rooms times the number of operational days.
C11_BookingsWithinTotalRooms ==
    /\ \A hotel_id \in HotelIds, day \in OpDays :
          BookingsCovering(hotel_id, day) <= get_hotel_by_id(hotel_id).total_rooms
    /\ BookedRoomNights <= TotalRooms * Cardinality(OpDays)

\* a hotel is sold out on some day, through the hotel and through the agent,
\* and the call that got there turned a demand down for capacity
C11_Witness ==
    /\ last.op = "process_daily_shopping"
    /\ last.capacity_rejections > 0
    /\ \E hotel_id \in HotelIds, day \in OpDays :
          BookingsCovering(hotel_id, day) = get_hotel_by_id(hotel_id).total_rooms

----------------------------------------------------------------------------
(* The precondition of the simulator's calls *)

\* the operations that need a simulation
GuardedCalls == {"process_daily_shopping", "run_full_simulation", "get_statistics"}

\* C12: on a simulator whose simulation id is not set, process_daily_shopping,
\* run_full_simulation and get_statistics do not run: the call raises
\* ValueError, and the travellers, the bookings, the supply ledger and the
\* stored bookings are after the raise what they were before it
C12_UninitializedCallsRaise ==
    [][simulation_id = NoSimulation =>
          /\ last'.op \notin GuardedCalls
          /\ last'.op = "raise" =>
                /\ last'.call \in GuardedCalls
                /\ last'.error = "ValueError"
                /\ users' = users
                /\ bookings' = bookings
                /\ daily_supply' = daily_supply
                /\ bookings_collection' = bookings_collection]_vars

\* a call raised on a simulator that holds bookings and a ledger: a run was
\* shopped and the file of an empty simulator loaded over it
C12_Witness ==
    /\ last.op = "raise"
    /\ simulation_id = NoSimulation
    /\ bookings # <<>>
    /\ DOMAIN daily_supply # {}

\* C13: process_daily_shopping completes a day only on a simulation whose
\* supply ledger is in the store
C13_ShoppingNeedsLedger ==
    last.op = "process_daily_shopping" =>
        \E k \in DOMAIN daily_supply : k[1] = simulation_id

----------------------------------------------------------------------------
(* Saved runs *)

\* the fields of an itinerary that a saved run has to bring back
SavedFields(itinerary) ==
    [trip_id |-> itinerary.trip_id, demands |-> itinerary.demands,
     is_booked |-> itinerary.is_booked,
     booked_price_per_night |-> itinerary.booked_price_per_night,
     booked_supplier_id |-> itinerary.booked_supplier_id,
     booked_supplier_type |-> itinerary.booked_supplier_type,
     booked_hotel_id |-> itinerary.booked_hotel_id]

SavedTravellers(us) ==
    [u \in 1..Len(us) |->
        [user_id |-> us[u].user_id,
         itineraries |-> [i \in 1..Len(us[u].itineraries) |->
                             SavedFields(us[u].itineraries[i])]]]

\* C14: loading what save_run writes of the simulator gives the same
\* simulation_parameters and, traveller by traveller in the same order, the
\* same itineraries in the same order with the same trip_id, demands,
\* is_booked and booked fields
C14_LoadRestoresSavedRun ==
    LET loaded == load_run(save_run(simulation_parameters, users))
    IN  /\ loaded.simulation_parameters = simulation_parameters
        /\ SavedTravellers(loaded.users) = SavedTravellers(users)

\* a run with a booked itinerary was saved and has just been loaded
C14_Witness ==
    /\ last.op = "load_run"
    /\ users = load_run(saved_run[1]).users
    /\ \E pos \in AllPositions(users) : ItineraryAt(users, pos).is_booked

----------------------------------------------------------------------------
(* Generated travellers *)

UserIds(us) == {us[k].user_id : k \in 1..Len(us)}

IsCasual(user_id) == \E k \in 1..MaxUsers : user_id = CasualIds[k]

AllDemands(us) ==
    UNION {{ItineraryAt(us, pos).demands[d] :
               d \in 1..Len(ItineraryAt(us, pos).demands)} : pos \in AllPositions(us)}

\* C15: after generate_demand(N, p), on a new simulator or on one that has
\* generated before, the map holds exactly N travellers: floor(N * p) casual
\* ones, casual-001 onwards, and the rest business ones, business-001 onwards
C15_ExactlyRequestedTravellers ==
    last.op = "generate_demand" =>
        LET casual == num_casual(last.total_users, last.proportion_casual)
        IN  /\ Len(users) = last.total_users
            /\ UserIds(users) =
                   {CasualIds[k] : k \in 1..casual}
                   \cup {BusinessIds[k] : k \in 1..(last.total_users - casual)}

\* C16: every casual traveller has 2 itineraries and every business traveller
\* 5, and the trip_ids of a traveller differ
C16_TripsPerTraveller ==
    \A u \in 1..Len(users) :
        /\ Len(users[u].itineraries) = IF IsCasual(users[u].user_id) THEN 2 ELSE 5
        /\ \A i, j \in 1..Len(users[u].itineraries) :
               users[u].itineraries[i].trip_id = users[u].itineraries[j].trip_id
                   => i = j

\* C17: every demand is shopped before its stay starts, and the stay lies in
\* the year: shopping_date < stay_start_date <= stay_end_date <= 99 and
\* stay_start_date >= 0
C17_DemandDatesOrdered ==
    \A d \in AllDemands(users) :
        /\ d.shopping_date < d.stay_start_date
        /\ d.stay_start_date <= d.stay_end_date
        /\ d.stay_end_date <= 99
        /\ d.stay_start_date >= 0

\* a trip picked on day 95 that would run past day 99 and ends on it, and a
\* trip picked on day 0
C17_Witness ==
    /\ \E d \in AllDemands(users) : d.stay_start_date = 95 /\ d.stay_end_date = 99
    /\ \E d \in AllDemands(users) : d.stay_start_date = 0

\* C18: no demand is shopped before day -20
C18_ShoppingNotBeforeMinus20 ==
    \A d \in AllDemands(users) : d.shopping_date >= -20

\* a trip on day 0 drawn to be shopped 50 days ahead is shopped from day -20
C18_Witness ==
    /\ last.op = "generate_demand"
    /\ \E t \in 1..Len(last.trips) : \E k \in 1..Len(last.trips[t].trips) :
           /\ last.trips[t].trips[k].start_date = 0
           /\ last.trips[t].trips[k].shop_start = -20
    /\ \E d \in AllDemands(users) : d.shopping_date = -20 /\ d.stay_start_date = 0

\* the itineraries of the travellers the last call generated, each with the
\* trip it was built from
GeneratedTrips ==
    {<<users[u].itineraries[k], last.trips[t].trips[k]>> :
         <<u, t, k>> \in {x \in (1..Len(users)) \X (1..Len(last.trips)) \X (1..5) :
                            /\ users[x[1]].user_id = last.trips[x[2]].user_id
                            /\ x[3] <= Len(last.trips[x[2]].trips)
                            /\ x[3] <= Len(users[x[1]].itineraries)}}

\* C19: the demands of an itinerary all carry its stay, there is one for each
\* day from shop_start to shop_end, in ascending order, so at least one and
\* never two for the same day
C19_OneDemandPerShoppingDay ==
    /\ \A pos \in AllPositions(users) :
           LET demands == ItineraryAt(users, pos).demands
           IN  /\ demands # <<>>
               /\ \A d \in 1..Len(demands) :
                      /\ demands[d].shopping_date = demands[1].shopping_date + d - 1
                      /\ demands[d].stay_start_date = demands[1].stay_start_date
                      /\ demands[d].stay_end_date = demands[1].stay_end_date
               /\ \A day \in EarliestShoppingDay..LastStayDay :
                      Len(MatchingDemands(ItineraryAt(users, pos), day)) <= 1
    /\ last.op = "generate_demand" =>
           \A g \in GeneratedTrips :
               /\ Len(g[1].demands) = g[2].shop_end - g[2].shop_start + 1
               /\ g[1].demands[1].shopping_date = g[2].shop_start
               /\ g[1].demands[Len(g[1].demands)].shopping_date = g[2].shop_end
               /\ g[1].demands[1].stay_start_date = g[2].start_date
               /\ g[1].demands[1].stay_end_date = g[2].end_date

\* a business itinerary shopped on several days and a casual one shopped from
\* the clamped day -20 were generated
C19_Witness ==
    /\ last.op = "generate_demand"
    /\ \E g \in GeneratedTrips :
           ~IsCasual(g[1].user_id) /\ g[2].shop_end - g[2].shop_start >= 6
    /\ \E g \in GeneratedTrips :
           IsCasual(g[1].user_id) /\ g[2].shop_start = EarliestShoppingDay

\* the nights of an itinerary
StayNights(itinerary) ==
    itinerary.demands[1].stay_start_date..itinerary.demands[1].stay_end_date

\* C20: the stays of two itineraries of one traveller share no night
C20_StaysDoNotOverlap ==
    \A u \in 1..Len(users) : \A i, j \in 1..Len(users[u].itineraries) :
        i # j => StayNights(users[u].itineraries[i])
                   \cap StayNights(users[u].itineraries[j]) = {}

----------------------------------------------------------------------------
(* The ledger after initialization *)

\* the (agent, allocation day) pairs that reach a day of the window, agent by
\* agent in configured order and, for an agent, in the order of its schedule
RuleVisits(day) ==
    LET reaches(a, i) ==
            /\ TravelAgents[a].allocation_schedule[i] >= operational_start_day
            /\ TravelAgents[a].allocation_schedule[i] <= day
        RECURSIVE visits(_, _)
        visits(a, i) ==
            IF a > Len(TravelAgents) THEN <<>>
            ELSE IF i > Len(TravelAgents[a].allocation_schedule) THEN visits(a + 1, 1)
            ELSE (IF reaches(a, i) THEN <<TravelAgents[a].agent_id>> ELSE <<>>)
                 \o visits(a, i + 1)
    IN  visits(1, 1)

\* the rooms each visit receives of what is left: min(n, remaining), an
\* allocation being recorded when that is more than 0
RECURSIVE ExpectedAllocations(_, _, _)
ExpectedAllocations(hotel_id, agents, remaining) ==
    IF agents = <<>> THEN <<>>
    ELSE LET n == RuleRooms(Head(agents), hotel_id)
             rooms == Min(n, remaining)
         IN  (IF rooms > 0 THEN << <<Head(agents), rooms>> >> ELSE <<>>)
             \o ExpectedAllocations(hotel_id, Tail(agents), remaining - rooms)

\* no room has been booked since the ledger was initialized
LedgerAsInitialized ==
    /\ simulation_id # NoSimulation
    /\ bookings_collection = EmptyBag

\* C21: after initialize_simulation, and until the first booking, the ledger
\* holds one DailySupply for each hotel and day of the operational window and
\* none outside it, with hotel_rooms_total the hotel's total_rooms; each
\* scheduled allocation day inside the window has given each rule, on every
\* day from it to the window's end, min(n, hotel_rooms_remaining) rooms out of
\* hotel_rooms_remaining, one allocation after the other, and
\* hotel_rooms_remaining is never below 0
C21_LedgerAsAllocated ==
    LedgerAsInitialized =>
        /\ {k \in SupplyKeys : k[1] = simulation_id}
               = {Key(simulation_id, h, d) : h \in HotelIds, d \in OpDays}
        /\ \A k \in SupplyKeys : k[1] = simulation_id =>
               LET ds == daily_supply[k]
                   expected == ExpectedAllocations(k[2], RuleVisits(k[3]),
                                                   get_hotel_by_id(k[2]).total_rooms)
               IN  /\ ds.hotel_rooms_total = get_hotel_by_id(k[2]).total_rooms
                   /\ [i \in 1..Len(ds.travel_agent_allocations) |->
                          <<ds.travel_agent_allocations[i].supplier_id,
                            ds.travel_agent_allocations[i].rooms_allocated>>] = expected
                   /\ \A i \in 1..Len(ds.travel_agent_allocations) :
                          ds.travel_agent_allocations[i].rooms_remaining
                              = ds.travel_agent_allocations[i].rooms_allocated
                   /\ ds.hotel_rooms_remaining
                          = ds.hotel_rooms_total - RoomsAllocated(ds.travel_agent_allocations)
                   /\ ds.hotel_rooms_remaining >= 0

\* a day on which the second allocation of an agent found fewer rooms than its
\* rule asks for, and the allocations after it none
C21_Witness ==
    /\ LedgerAsInitialized
    /\ \E k \in SupplyKeys :
           /\ Len(Allocations(k)) = 2
           /\ Allocations(k)[2].rooms_allocated
                  < RuleRooms(Allocations(k)[2].supplier_id, k[2])
           /\ Len(RuleVisits(k[3])) > 2
           /\ daily_supply[k].hotel_rooms_remaining = 0

----------------------------------------------------------------------------
(* The cost basis of an allocation *)

\* what the agent charges per night for a room it holds at cost_basis
AgentPrice(agent_id, cost_basis) ==
    ((cost_basis + get_travel_agent_by_id(agent_id).operating_cost_per_room)
        * (100 + get_travel_agent_by_id(agent_id).profit_margin)) \div 100

\* the allocations are created with the price the hotel-day stores
CostBasisAsStored ==
    last.op = "generate_demand" =>
        \A k \in SupplyKeys : \A i \in 1..Len(Allocations(k)) :
            Allocations(k)[i].cost_basis = daily_supply[k].hotel_price

\* no step changes the cost_basis of an allocation, and a room booked with an
\* agent is charged at the price derived from it
CostBasisKept ==
    /\ \A k \in SupplyKeys : k[1] = simulation_id =>
           /\ k \in DOMAIN daily_supply'
           /\ Len(daily_supply'[k].travel_agent_allocations) = Len(Allocations(k))
           /\ \A i \in 1..Len(Allocations(k)) :
                  LET before == Allocations(k)[i]
                      after == daily_supply'[k].travel_agent_allocations[i]
                  IN  /\ after.supplier_id = before.supplier_id
                      /\ after.cost_basis = before.cost_basis
                      /\ AgentPrice(after.supplier_id, after.cost_basis)
                            = AgentPrice(before.supplier_id, before.cost_basis)
    /\ (/\ last'.op = "book_room"
        /\ last'.supplier_type = TRAVEL_AGENT
        /\ last'.returned.created)
       => last'.returned.total_price =
              SumSeq([i \in 1..Len(last'.returned.stay_dates) |->
                  LET k == Key(simulation_id, last'.returned.hotel_id,
                               last'.returned.stay_dates[i])
                      a == FirstAllocation(daily_supply[k], last'.returned.supplier_id)
                  IN  AgentPrice(last'.returned.supplier_id, Allocations(k)[a].cost_basis)])

\* C22: an allocation's cost_basis is the price its hotel-day stores when the
\* allocation is created and no later update_hotel_prices or booking changes
\* it, so the agent's price (cost_basis + operating_cost_per_room) *
\* (1 + profit_margin) for the hotel-day stays what it was
C22_CostBasisLocked == [](CostBasisAsStored) /\ [][CostBasisKept]_vars

\* a room booked with an agent at 126.50 (base price 100, operating cost 10,
\* margin 15%) on a day the hotel has meanwhile repriced
C22_Witness ==
    /\ last.op = "book_room"
    /\ last.supplier_type = TRAVEL_AGENT
    /\ last.returned.created
    /\ last.returned.total_price = 12650 * Len(last.returned.stay_dates)
    /\ \E i \in 1..Len(last.returned.stay_dates) :
           LET k == Key(simulation_id, last.returned.hotel_id, last.returned.stay_dates[i])
           IN  /\ daily_supply[k].hotel_price # 10000
               /\ \E j \in 1..Len(Allocations(k)) :
                      /\ Allocations(k)[j].supplier_id = last.returned.supplier_id
                      /\ Allocations(k)[j].cost_basis = 10000
                      /\ Allocations(k)[j].rooms_remaining < Allocations(k)[j].rooms_allocated

----------------------------------------------------------------------------
(* Repricing *)

\* the step is a call update_hotel_prices(simulation_id, last'.current_day)
RepricedOnly ==
    /\ DOMAIN daily_supply' = DOMAIN daily_supply
    /\ bookings_collection' = bookings_collection
    /\ \A k \in SupplyKeys :
           /\ daily_supply'[k].hotel_price =
                  IF k[1] = simulation_id /\ k[3] >= last'.current_day
                  THEN calculate_hotel_price(get_hotel_by_id(k[2]), last'.current_day, k[3])
                  ELSE daily_supply[k].hotel_price
           /\ daily_supply'[k].hotel_rooms_total = daily_supply[k].hotel_rooms_total
           /\ daily_supply'[k].hotel_rooms_remaining = daily_supply[k].hotel_rooms_remaining
           /\ daily_supply'[k].travel_agent_allocations = Allocations(k)
           /\ daily_supply'[k].bookings_count = daily_supply[k].bookings_count
           /\ daily_supply'[k].total_revenue = daily_supply[k].total_revenue

\* C27: update_hotel_prices(sim, d) sets, for every hotel and every day s >= d
\* of the window, hotel_price to calculate_hotel_price(hotel, d, s); the prices
\* of the days before d, every room count, every allocation with its
\* cost_basis, bookings_count and total_revenue stay as they were
C27_UpdateRepricesFromCurrentDay ==
    [][last'.op = "update_hotel_prices" => RepricedOnly]_vars

\* prices updated for day 1 after rooms were booked, day 0 keeping a price
\* that an update for day 1 would not give it
C27_Witness ==
    /\ last.op = "update_hotel_prices"
    /\ last.current_day = 1
    /\ \E k \in SupplyKeys :
           /\ k[3] = 0
           /\ daily_supply[k].hotel_price # calculate_hotel_price(get_hotel_by_id(k[2]), 1, 0)
           /\ daily_supply[k].bookings_count > 0
    /\ \E k \in SupplyKeys :
           /\ k[3] = 2
           /\ daily_supply[k].hotel_price = calculate_hotel_price(get_hotel_by_id(k[2]), 1, 2)
           /\ daily_supply[k].hotel_price # get_hotel_by_id(k[2]).base_price
           /\ Allocations(k) # <<>>

----------------------------------------------------------------------------
(* The frame of a booking *)

\* the rooms the supplier still has in a document
RECURSIVE AgentRoomsRemaining(_, _)
AgentRoomsRemaining(allocs, agent_id) ==
    IF allocs = <<>> THEN 0
    ELSE (IF Head(allocs).supplier_id = agent_id THEN Head(allocs).rooms_remaining ELSE 0)
         + AgentRoomsRemaining(Tail(allocs), agent_id)

\* an allocation without its counter
AllocationIdentity(a) ==
    [supplier_id |-> a.supplier_id, supplier_type |-> a.supplier_type,
     hotel_id |-> a.hotel_id, day |-> a.day,
     rooms_allocated |-> a.rooms_allocated, cost_basis |-> a.cost_basis]

\* the step booked one room of the booking's supplier on the document k
BookedOn(k, booking) ==
    LET before == daily_supply[k]
        after == daily_supply'[k]
        n == Len(before.travel_agent_allocations)
    IN  /\ after.bookings_count = before.bookings_count + 1
        /\ after.hotel_rooms_total = before.hotel_rooms_total
        /\ after.hotel_price = before.hotel_price
        /\ Len(after.travel_agent_allocations) = n
        /\ \A i \in 1..n :
               /\ AllocationIdentity(after.travel_agent_allocations[i])
                      = AllocationIdentity(before.travel_agent_allocations[i])
               /\ (booking.supplier_type = HOTEL
                     \/ before.travel_agent_allocations[i].supplier_id # booking.supplier_id)
                  => after.travel_agent_allocations[i] = before.travel_agent_allocations[i]
        /\ IF booking.supplier_type = HOTEL
           THEN after.hotel_rooms_remaining = before.hotel_rooms_remaining - 1
           ELSE /\ after.hotel_rooms_remaining = before.hotel_rooms_remaining
                /\ AgentRoomsRemaining(after.travel_agent_allocations, booking.supplier_id)
                      = AgentRoomsRemaining(before.travel_agent_allocations,
                                            booking.supplier_id) - 1

BookingFrame(booking) ==
    /\ DOMAIN daily_supply' = DOMAIN daily_supply
    /\ \A k \in SupplyKeys :
           IF /\ k[1] = booking.simulation_id
              /\ k[2] = booking.hotel_id
              /\ \E i \in 1..Len(booking.stay_dates) : booking.stay_dates[i] = k[3]
           THEN BookedOn(k, booking)
           ELSE daily_supply'[k] = daily_supply[k]

\* C28: a successful book_room takes exactly 1, on each day of stay_dates,
\* from the named supplier's counter at the named hotel (hotel_rooms_remaining
\* for HOTEL, the agent's allocation for TRAVEL_AGENT) and from no other
\* counter, adds 1 to that day's bookings_count, and leaves the other days and
\* the other hotels as they were
C28_BookingTouchesOnlyItsCounter ==
    [][(last'.op = "book_room" /\ last'.returned.created) => BookingFrame(last'.returned)]_vars

\* a room booked with an agent for two nights after a room was booked with a
\* hotel directly
C28_Witness ==
    /\ last.op = "book_room"
    /\ last.returned.created
    /\ last.returned.supplier_type = TRAVEL_AGENT
    /\ Len(last.returned.stay_dates) = 2
    /\ \E b \in BagToSet(bookings_collection) : b.supplier_type = HOTEL
    /\ \E k \in SupplyKeys :
           /\ k[2] = last.returned.hotel_id
           /\ daily_supply[k].bookings_count = 2
           /\ daily_supply[k].hotel_rooms_remaining < daily_supply[k].hotel_rooms_total - 1

----------------------------------------------------------------------------
(* One evaluation per itinerary and day *)

ShopsOn(itinerary, day) ==
    \E j \in 1..Len(itinerary.demands) : itinerary.demands[j].shopping_date = day

PastLastShoppingDay(itinerary, day) ==
    \A j \in 1..Len(itinerary.demands) : itinerary.demands[j].shopping_date < day

\* the evaluations of the call that the step made, for one itinerary
EvaluationsOf(pos) == {k \in 1..Len(last'.evals) : last'.evals[k].pos = pos}

OneEvaluationPerItinerary ==
    \A pos \in AllPositions(users) :
        LET before == ItineraryAt(users, pos)
            after == ItineraryAt(users', pos)
        IN  /\ Cardinality(EvaluationsOf(pos)) <= 1
            /\ EvaluationsOf(pos) # {}
                  => ~before.is_booked /\ ShopsOn(before, last'.day)
            /\ \A k \in EvaluationsOf(pos) :
                  after.is_booked <=> last'.evals[k].booking.created
            /\ EvaluationsOf(pos) = {} => after = before
            /\ (~before.is_booked /\ PastLastShoppingDay(before, last'.day))
                  => ~after.is_booked

\* C29: one call process_daily_shopping(d) evaluates an itinerary at most
\* once, and only an unbooked one with a demand for d; a rejected itinerary
\* stays unbooked, to be evaluated again by a later call for a day it has a
\* demand for, and an itinerary unbooked after its last shopping day is not
\* booked by the call for any later day
C29_EvaluatedOncePerDay ==
    [][last'.op = "process_daily_shopping" => OneEvaluationPerItinerary]_vars

\* a call for a day after the shopping days of two itineraries with the same
\* demands: a call for one of those days booked the one and rejected the
\* other, which is still unbooked
C29_Witness ==
    /\ last.op = "process_daily_shopping"
    /\ \E p, q \in AllPositions(users) :
           /\ ItineraryAt(users, p).demands = ItineraryAt(users, q).demands
           /\ ItineraryAt(users, p).is_booked
           /\ ~ItineraryAt(users, q).is_booked
           /\ PastLastShoppingDay(ItineraryAt(users, q), last.day)
           /\ ItineraryAt(last.before, q) = ItineraryAt(users, q)

----------------------------------------------------------------------------
(* A day without shoppers *)

\* no unbooked itinerary has a demand for the day
NoShopperOn(us, day) ==
    \A pos \in AllPositions(us) :
        ItineraryAt(us, pos).is_booked \/ ~ShopsOn(ItineraryAt(us, pos), day)

\* the rooms and the counts of a document
RoomCounts(ds) ==
    [hotel_rooms_total |-> ds.hotel_rooms_total,
     hotel_rooms_remaining |-> ds.hotel_rooms_remaining,
     allocations |-> [i \in 1..Len(ds.travel_agent_allocations) |->
                         <<ds.travel_agent_allocations[i].supplier_id,
                           ds.travel_agent_allocations[i].rooms_allocated,
                           ds.travel_agent_allocations[i].rooms_remaining>>],
     bookings_count |-> ds.bookings_count]

\* C30: process_daily_shopping for a day on which no unbooked itinerary has a
\* demand returns an empty list and leaves the booking state of every
\* itinerary, every room count and bookings_count, and the simulator's list of
\* bookings as they were
C30_DayWithoutShoppers ==
    [][(last'.op = "process_daily_shopping" /\ NoShopperOn(users, last'.day)) =>
          /\ last'.returned = <<>>
          /\ users' = users
          /\ bookings' = bookings
          /\ bookings_collection' = bookings_collection
          /\ DOMAIN daily_supply' = DOMAIN daily_supply
          /\ \A k \in SupplyKeys :
                 RoomCounts(daily_supply'[k]) = RoomCounts(daily_supply[k])]_vars

\* a call for a day nobody shops on, of a simulator with booked and unbooked
\* itineraries, that repriced a hotel-day holding a booking
C30_Witness ==
    /\ last.op = "process_daily_shopping"
    /\ NoShopperOn(last.before, last.day)
    /\ users = last.before
    /\ bookings # <<>>
    /\ \E pos \in AllPositions(users) : ~ItineraryAt(users, pos).is_booked
    /\ \E k \in SupplyKeys :
           /\ daily_supply[k].bookings_count > 0
           /\ k[3] >= last.day
           /\ daily_supply[k].hotel_price
                  = calculate_hotel_price(get_hotel_by_id(k[2]), last.day, k[3])

----------------------------------------------------------------------------
(* Single-supplier mode *)

\* the unbooked itineraries with a demand for the day, in the order of the map
Shoppers(us, day) ==
    SelectSeq(Positions(us, 1, 1, <<>>),
              LAMBDA pos : /\ ~ItineraryAt(us, pos).is_booked
                           /\ ShopsOn(ItineraryAt(us, pos), day))

\* the first demand of the itinerary for the day
DemandOn(itinerary, day) ==
    itinerary.demands[CHOOSE j \in 1..Len(itinerary.demands) :
        /\ itinerary.demands[j].shopping_date = day
        /\ \A h \in 1..(j - 1) : itinerary.demands[h].shopping_date # day]

Nights(demand) == demand.stay_start_date..demand.stay_end_date

RECURSIVE SumOfPrices(_, _)
SumOfPrices(daily_prices, nights) ==
    IF nights = {} THEN 0
    ELSE LET night == CHOOSE n \in nights : TRUE
         IN  daily_prices[ToString(night)] + SumOfPrices(daily_prices, nights \ {night})

\* the step is a call process_daily_prices(last'.day, last'.daily_prices): the
\* shoppers are taken in order, each against the capacity its predecessors left
PricesCallBooksExactly ==
    LET day == last'.day
        daily_prices == last'.daily_prices
        shoppers == Shoppers(users, day)
        demand(k) == DemandOn(ItineraryAt(users, shoppers[k]), day)
        booked(k) == ItineraryAt(users', shoppers[k]).is_booked
        remaining(k, night) ==
            hotel_capacity[night]
               - Cardinality({j \in 1..(k - 1) : booked(j) /\ night \in Nights(demand(j))})
        affordable(k) ==
            SumOfPrices(daily_prices, Nights(demand(k)))
               <= demand(k).max_price_per_night * Cardinality(Nights(demand(k)))
    IN  /\ \A k \in 1..Len(shoppers) :
               /\ booked(k) <=>
                     /\ affordable(k)
                     /\ \A night \in Nights(demand(k)) : remaining(k, night) > 0
               /\ booked(k) =>
                     /\ Len(ItineraryAt(users', shoppers[k]).booked_price_per_night) = 1
                     /\ ItineraryAt(users', shoppers[k]).booked_price_per_night[1]
                              * Cardinality(Nights(demand(k)))
                           = SumOfPrices(daily_prices, Nights(demand(k))) * MeanScale
               /\ ~booked(k) =>
                     ItineraryAt(users', shoppers[k]) = ItineraryAt(users, shoppers[k])
        /\ \A pos \in AllPositions(users) :
               (ItineraryAt(users, pos).is_booked \/ ~ShopsOn(ItineraryAt(users, pos), day))
                  => ItineraryAt(users', pos) = ItineraryAt(users, pos)
        /\ DOMAIN hotel_capacity' = DOMAIN hotel_capacity
        /\ \A night \in DOMAIN hotel_capacity :
               hotel_capacity'[night] = remaining(Len(shoppers) + 1, night)

\* C24: in single-supplier mode the call for day d with a table of prices
\* books an unbooked itinerary that has a demand for d exactly when the mean of
\* the supplied prices over its stay is at most the demand's max price and
\* the capacity left is above 0 on every day of the stay; it then takes 1 from
\* the shared capacity on each night of the stay and records the mean as
\* booked_price_per_night
C24_SingleSupplierBooking ==
    [][last'.op = "process_daily_prices" => PricesCallBooksExactly]_vars

\* a call that booked a stay of two nights or more at the mean of different
\* prices and turned down an itinerary that could pay the mean price of its
\* stay but found no room on one of its nights
C24_Witness ==
    /\ last.op = "process_daily_prices"
    /\ \E p \in AllPositions(users) :
           /\ ~ItineraryAt(last.before, p).is_booked
           /\ ItineraryAt(users, p).is_booked
           /\ Cardinality(Nights(DemandOn(ItineraryAt(users, p), last.day))) >= 2
           /\ last.daily_prices["0"] # last.daily_prices["1"]
    /\ \E q \in AllPositions(users) :
           LET it == ItineraryAt(users, q)
           IN  /\ ~it.is_booked
               /\ ShopsOn(it, last.day)
               /\ SumOfPrices(last.daily_prices, Nights(DemandOn(it, last.day)))
                     <= DemandOn(it, last.day).max_price_per_night
                           * Cardinality(Nights(DemandOn(it, last.day)))
               /\ \E night \in Nights(DemandOn(it, last.day)) : hotel_capacity[night] = 0

----------------------------------------------------------------------------
(* The price of a hotel night *)

\* the bucket of a lead time
LeadTimeBucket(lead_time) ==
    CASE lead_time <= 7 -> "lead_time_0_7"
      [] lead_time \in 8..14 -> "lead_time_8_14"
      [] lead_time \in 15..30 -> "lead_time_15_30"
      [] lead_time >= 31 -> "lead_time_31_plus"

\* the default multipliers 1.5, 1.3, 1.1 and 1.0, in tenths
DefaultMultiplier ==
    [lead_time_0_7 |-> 15, lead_time_8_14 |-> 13, lead_time_15_30 |-> 11,
     lead_time_31_plus |-> 10]

\* the hotel's own multiplier for the bucket, the default where it has none
BucketMultiplier(hotel, bucket) ==
    IF bucket \in DOMAIN hotel.dynamic_pricing_config
    THEN hotel.dynamic_pricing_config[bucket]
    ELSE DefaultMultiplier[bucket]

\* C23: calculate_hotel_price(hotel, current_day, stay_day) is base_price
\* times the multiplier of the bucket of stay_day - current_day: 1.5 up to 7
\* days, 1.3 for 8..14, 1.1 for 15..30 and 1.0 from 31 days on, each replaced
\* by the hotel's own value where it has one
C23_PriceByLeadTimeBucket ==
    last.op = "calculate_hotel_price" =>
        last.returned * 10 =
            last.hotel.base_price
               * BucketMultiplier(last.hotel, LeadTimeBucket(last.stay_day - last.current_day))

\* the price 14 days ahead for a hotel that has its own multiplier for 8..14
\* and none for 0..7
C23_Witness ==
    /\ last.op = "calculate_hotel_price"
    /\ last.stay_day - last.current_day = 14
    /\ "lead_time_8_14" \in DOMAIN last.hotel.dynamic_pricing_config
    /\ "lead_time_0_7" \notin DOMAIN last.hotel.dynamic_pricing_config
    /\ last.returned = 12000

----------------------------------------------------------------------------
(* Saved runs with unknown members *)

\* the file without the members load_run does not know
KnownMembers(file) ==
    [simulation_parameters |-> file.simulation_parameters,
     users |-> JsonObject([u \in 1..Len(file.users.members) |->
         <<file.users.members[u][1],
           [i \in 1..Len(file.users.members[u][2]) |->
               LET itinerary_data == file.users.members[u][2][i]
                   known == SelectSeq(itinerary_data.members,
                                LAMBDA m : m[1] \in BookedKeys \cup {"trip_id", "demands"})
               IN  JsonObject([m \in 1..Len(known) |->
                       IF known[m][1] = "demands"
                       THEN <<"demands", [d \in 1..Len(known[m][2]) |->
                                JsonObject(SelectSeq(known[m][2][d].members,
                                              LAMBDA dm : dm[1] \in DemandKeys))]>>
                       ELSE known[m]])]>>])]

\* C25: load_run accepts a saved run carrying members it does not know, at
\* the top level, in an itinerary record or in a demand record, and loads it as
\* if they were not there, absent booked members taking their defaults
C25_UnknownMembersIgnored ==
    last.op = "load_run" =>
        /\ last.raised = "none"
        /\ simulation_parameters = saved_run[1].simulation_parameters
        /\ users = load_run(KnownMembers(saved_run[1])).users

\* the runs with unknown members at the top level and in the itinerary
\* records, and without booked members, are loaded
C25_AcceptedElsewhere ==
    (/\ last.op = "load_run"
     /\ \A u \in 1..Len(saved_run[1].users.members) :
            \A i \in 1..Len(saved_run[1].users.members[u][2]) :
                LET ds == JsonMember(saved_run[1].users.members[u][2][i], "demands")
                IN  \A d \in 1..Len(ds) : ~JsonHas(ds[d], "currency"))
    => /\ last.raised = "none"
       /\ users = load_run(KnownMembers(saved_run[1])).users

----------------------------------------------------------------------------
(* Occupancy *)

\* the room-nights of the simulation's Booking documents
RECURSIVE BookedNights(_)
BookedNights(docs) ==
    IF docs = {} THEN 0
    ELSE LET b == CHOOSE x \in docs : TRUE
         IN  Len(b.stay_dates) * CopiesIn(b, bookings_collection)
                + BookedNights(docs \ {b})

\* C26: get_simulation_statistics reports as booked_room_days the room-nights
\* that were booked, the sum of the stay lengths of the simulation's
\* bookings, so that occupancy_rate is booked over available room-days and 0
\* as long as nothing is booked
C26_OccupancyCountsBookedNights ==
    last.op = "get_statistics" =>
        LET booked == BookedNights({b \in BagToSet(bookings_collection) :
                                       b.simulation_id = simulation_id})
        IN  /\ last.returned.booked_room_days = booked
            /\ last.returned.occupancy_rate[1] * last.returned.total_room_days
                  = booked * 100 * last.returned.occupancy_rate[2]
            /\ booked = 0 => last.returned.occupancy_rate[1] = 0

----------------------------------------------------------------------------
(* Rejection reasons *)

\* the supplier has a room of the hotel on every night of the stay
InventoryForStay(store, sim, supplier_type, supplier_id, hotel_id, stay_dates) ==
    \A i \in 1..Len(stay_dates) :
        /\ Key(sim, hotel_id, stay_dates[i]) \in DOMAIN store
        /\ LET ds == store[Key(sim, hotel_id, stay_dates[i])]
           IN  IF supplier_type = HOTEL
               THEN ds.hotel_rooms_remaining > 0
               ELSE \E a \in 1..Len(ds.travel_agent_allocations) :
                       /\ ds.travel_agent_allocations[a].supplier_id = supplier_id
                       /\ ds.travel_agent_allocations[a].rooms_remaining > 0

\* some hotel or reseller has inventory for the whole stay
SomeInventoryForStay(store, sim, stay_dates) ==
    \E hotel_id \in HotelIds :
        \/ InventoryForStay(store, sim, HOTEL, hotel_id, hotel_id, stay_dates)
        \/ \E agent_id \in AgentIds :
               InventoryForStay(store, sim, TRAVEL_AGENT, agent_id, hotel_id, stay_dates)

\* C31: an evaluated demand that gets no offer is recorded under exactly one
\* rejection reason: capacity when no hotel and no reseller has inventory on
\* every night of the stay, price when some supplier has inventory for the
\* whole stay, its mean price being above the demand's maximum
C31_RejectionReason ==
    last.op = "process_daily_shopping" =>
        /\ last.price_rejections + last.capacity_rejections + Len(last.returned)
              = last.demands_checked
        /\ \A k \in 1..Len(last.evals) :
               LET e == last.evals[k]
                   stay_dates == Range(e.demand.stay_start_date, e.demand.stay_end_date)
               IN  ~e.offer.available =>
                       /\ e.rejection \in {"price", "capacity"}
                       /\ e.rejection = "price"
                             <=> SomeInventoryForStay(e.store, simulation_id, stay_dates)

----------------------------------------------------------------------------
(* The trip scheduler *)

\* the length the k-th pick blocks after its start day: the k-th largest trip
\* length, or 24 days when no lengths are given
BlockAfter(trip_lengths, k) ==
    IF trip_lengths = <<>> THEN 24
    ELSE LET descending == [j \in 1..Len(trip_lengths) |->
                               CHOOSE v \in 0..year_length :
                                   /\ \E i \in 1..Len(trip_lengths) : trip_lengths[i] = v
                                   /\ Cardinality({i \in 1..Len(trip_lengths) :
                                                      trip_lengths[i] > v}) < j
                                   /\ Cardinality({i \in 1..Len(trip_lengths) :
                                                      trip_lengths[i] >= v}) >= j]
         IN  descending[k]

\* the days still available before the k-th pick
AvailableBefore(picks, trip_lengths, k) ==
    {day \in 0..(year_length - 1) :
        \A j \in 1..(k - 1) :
            ~(picks[j] <= day /\ day <= picks[j] + BlockAfter(trip_lengths, j))}

\* C32: _schedule_trips returns at most num_trips start days, pairwise
\* distinct, each in [0, year_length), in ascending order; each pick is one of
\* the days available when it is made and takes [start, start + length] (the
\* lengths in descending order) or [start, start + 24] out of the available
\* days; fewer than num_trips days are returned only when no day is left
C32_ScheduledTrips ==
    last.op = "generate_demand" =>
        \A u \in 1..Len(last.trips) :
            LET t == last.trips[u]
                trip_dates == [k \in 1..Len(t.trips) |-> t.trips[k].start_date]
                n == Len(trip_dates)
            IN  /\ n <= t.num_trips
                /\ \A k \in 1..n : trip_dates[k] \in 0..(year_length - 1)
                /\ \A j, k \in 1..n : j < k => trip_dates[j] < trip_dates[k]
                /\ n = Len(t.picks)
                /\ {trip_dates[k] : k \in 1..n} = {t.picks[k] : k \in 1..n}
                /\ \A k \in 1..n :
                       t.picks[k] \in AvailableBefore(t.picks, t.trip_lengths, k)
                /\ n < t.num_trips =>
                       AvailableBefore(t.picks, t.trip_lengths, n + 1) = {}

\* a business traveller whose fourth pick uses up the year, and a casual
\* traveller whose second pick lies before the first
C32_Witness ==
    /\ last.op = "generate_demand"
    /\ \E u \in 1..Len(last.trips) :
           /\ last.trips[u].num_trips = 5
           /\ Len(last.trips[u].trips) = 4
    /\ \E u \in 1..Len(last.trips) :
           /\ last.trips[u].num_trips = 2
           /\ Len(last.trips[u].picks) = 2
           /\ last.trips[u].picks[2] < last.trips[u].picks[1]

----------------------------------------------------------------------------
(* The full run *)

\* C33: run_full_simulation on an initialized simulator calls
\* process_daily_shopping once for each day from -20 to 99, in ascending
\* order, and returns the statistics of the ledger it leaves
C33_FullRunProcessesEveryDayOnce ==
    last.op = "run_full_simulation" =>
        /\ Len(last.days) = 120
        /\ \A k \in 1..Len(last.days) : last.days[k] = k - 21
        /\ last.returned = get_simulation_statistics(daily_supply, bookings_collection,
                                                     simulation_id)

\* a full run of the generated travellers that has booked
C33_Witness ==
    /\ last.op = "run_full_simulation"
    /\ last.days # <<>>
    /\ last.returned.total_bookings > 0
    /\ \E u \in 1..Len(users) : \E i \in 1..Len(users[u].itineraries) :
           users[u].itineraries[i].is_booked

----------------------------------------------------------------------------
(* Determinism of the day loop *)

\* the user ids of a traveller map, in its order
UserOrder(us) == [u \in 1..Len(us) |-> us[u].user_id]

\* the evaluations of a call that ended in a booking, in their order
BookedEvals(evals) ==
    LET Created(e) == e.booking.created
    IN  SelectSeq(evals, Created)

\* the travellers are evaluated in insertion order and their itineraries in
\* list order, and the bookings are returned in the order they were made
EvaluatedInOrder ==
    (last.op = "process_daily_shopping") =>
        /\ \A j, k \in 1..Len(last.evals) :
               j < k => \/ last.evals[j].pos[1] < last.evals[k].pos[1]
                        \/ /\ last.evals[j].pos[1] = last.evals[k].pos[1]
                           /\ last.evals[j].pos[2] < last.evals[k].pos[2]
        /\ \A k \in 1..Len(last.evals) :
               /\ last.evals[k].user_id = last.before[last.evals[k].pos[1]].user_id
               /\ last.evals[k].trip_id
                     = last.before[last.evals[k].pos[1]]
                           .itineraries[last.evals[k].pos[2]].trip_id
        /\ Len(last.returned) = Len(BookedEvals(last.evals))
        /\ \A k \in 1..Len(last.returned) :
               /\ last.returned[k].user_id = BookedEvals(last.evals)[k].user_id
               /\ last.returned[k].hotel_id = BookedEvals(last.evals)[k].booking.hotel_id
               /\ last.returned[k].supplier_id
                     = BookedEvals(last.evals)[k].booking.supplier_id

\* the file keeps the travellers in the simulator's order and load_run
\* restores them in the file's order
LoadedInSavedOrder ==
    (last.op \in {"save_run", "load_run"} /\ saved_run # None) =>
        /\ UserOrder(users) = [u \in 1..Len(saved_run[1].users.members) |->
                                saved_run[1].users.members[u][1]]
        /\ \A u \in 1..Len(users) :
               [i \in 1..Len(users[u].itineraries) |-> users[u].itineraries[i].trip_id]
                 = [i \in 1..Len(saved_run[1].users.members[u][2]) |->
                       JsonMember(saved_run[1].users.members[u][2][i], "trip_id")]

\* the state a process_daily_shopping step leaves is a function of the
\* traveller map, the ledger and the day
SameDaySameResult ==
    (last'.op = "process_daily_shopping" /\ last' # last) =>
        \E st \in {process_daily_shopping(daily_supply, bookings_collection, users,
                                          bookings, simulation_id, last'.day)} :
            /\ daily_supply' = st.store
            /\ bookings_collection' = st.collection
            /\ users' = st.users
            /\ bookings' = st.bookings
            /\ last'.returned = st.bookings_today
            /\ last'.before = users

----------------------------------------------------------------------------
(* Start days and trip lengths of a business traveller *)

\* C35: each itinerary of a business traveller stays for the trip length
\* whose blockout _schedule_trips applied after that itinerary's start day
C35_StayLengthIsBlockedLength ==
    last.op = "generate_demand" =>
        \A u \in 1..Len(last.trips) :
            LET t == last.trips[u]
            IN  t.trip_lengths # <<>> =>
                    \A k \in 1..Len(t.picks) : \A i \in 1..Len(t.trips) :
                        t.trips[i].start_date = t.picks[k] =>
                            t.trips[i].end_date
                              = Min(LastStayDay,
                                    t.picks[k] + BlockAfter(t.trip_lengths, k) - 1)

----------------------------------------------------------------------------
(* Availability of a reseller: the offer and the booking *)

\* C36: for every agent, hotel and stay, the availability test of the agent's
\* offer and the availability check of book_room give the same answer, also
\* when the agent holds several allocation entries on one hotel-day
C36_OfferAndBookingAgreeOnAvailability ==
    simulation_id # NoSimulation =>
        \A a \in 1..Len(TravelAgents), h \in 1..Len(Hotels), stay_dates \in Stays :
            \A max_price_per_night \in {1000000} :
                _evaluate_travel_agent_offer(daily_supply, simulation_id,
                        TravelAgents[a], Hotels[h], FirstSimulationDay, stay_dates,
                        max_price_per_night).available
                  <=> AllDaysAvailable(daily_supply, simulation_id,
                                       TravelAgents[a].agent_id, TRAVEL_AGENT,
                                       Hotels[h].hotel_id, stay_dates)

----------------------------------------------------------------------------
(* Conservation of rooms *)

\* total_rooms of the hotel in the configuration
PoolOf(hotel_id) ==
    Hotels[CHOOSE h \in 1..Len(Hotels) : Hotels[h].hotel_id = hotel_id].total_rooms

\* C37: after initialization, on every (hotel, day), hotel_rooms_remaining
\* plus the rooms_remaining of all travel-agent allocations plus
\* bookings_count is hotel_rooms_total, the hotel's fixed pool of rooms
C37_RoomsConserved ==
    \A k \in DOMAIN daily_supply :
        LET ds == daily_supply[k]
        IN  /\ ds.hotel_rooms_total = PoolOf(ds.hotel_id)
            /\ ds.hotel_rooms_remaining
                 + SumSeq([a \in 1..Len(ds.travel_agent_allocations) |->
                              ds.travel_agent_allocations[a].rooms_remaining])
                 + ds.bookings_count
               = ds.hotel_rooms_total

\* a day on which a room was sold by the hotel and one by an agent, with rooms
\* of both left
C37_Witness ==
    \E k \in DOMAIN daily_supply :
        /\ daily_supply[k].bookings_count >= 2
        /\ daily_supply[k].hotel_rooms_remaining > 0
        /\ daily_supply[k].hotel_rooms_remaining < daily_supply[k].hotel_rooms_total
        /\ \E a \in 1..Len(daily_supply[k].travel_agent_allocations) :
               daily_supply[k].travel_agent_allocations[a].rooms_remaining
                 < daily_supply[k].travel_agent_allocations[a].rooms_allocated
        /\ \E a \in 1..Len(daily_supply[k].travel_agent_allocations) :
               daily_supply[k].travel_agent_allocations[a].rooms_remaining > 0

----------------------------------------------------------------------------
(* A fresh run *)

\* C38: immediately after generate_demand returns no itinerary of the
\* traveller map is booked, the simulator's bookings list is empty, the store
\* holds no booking record of the simulation id and every DailySupply of that
\* id has bookings_count 0, also on a simulator and with a simulation id that
\* an earlier run has used
C38_GenerateDemandStartsFresh ==
    last.op = "generate_demand" =>
        /\ \A u \in 1..Len(users) : \A i \in 1..Len(users[u].itineraries) :
               ~users[u].itineraries[i].is_booked
        /\ bookings = <<>>
        /\ \A b \in BagToSet(bookings_collection) : b.simulation_id # simulation_id
        /\ \A k \in DOMAIN daily_supply :
               daily_supply[k].simulation_id = simulation_id
                   => daily_supply[k].bookings_count = 0

----------------------------------------------------------------------------
(* Prices over a run *)

\* the hotel of the configuration with this id
HotelById(hotel_id) ==
    Hotels[CHOOSE h \in 1..Len(Hotels) : Hotels[h].hotel_id = hotel_id]

\* the hotel's multipliers are the default ones
DefaultMultipliers(hotel_id) ==
    HotelById(hotel_id).dynamic_pricing_config = DefaultPricingConfig

\* base x 1.0, 1.1, 1.3, 1.5
PriceLevels(hotel_id) ==
    {(HotelById(hotel_id).base_price * m) \div 10 : m \in {10, 11, 13, 15}}

\* the stored price of a hotel with the default multipliers does not go down
\* in a step, stays on one of the four levels, and stays as it is on the stay
\* days before the day that is processed
PriceStep ==
    \A k \in DOMAIN daily_supply :
        (k \in DOMAIN daily_supply' /\ DefaultMultipliers(daily_supply[k].hotel_id)) =>
            /\ daily_supply'[k].hotel_price >= daily_supply[k].hotel_price
            /\ daily_supply'[k].hotel_price \in PriceLevels(daily_supply[k].hotel_id)
            /\ (last'.op = "process_daily_shopping" /\ daily_supply[k].day < last'.day)
                 => daily_supply'[k].hotel_price = daily_supply[k].hotel_price

\* C39: in a run that processes its days in ascending order with the default
\* multipliers, the stored hotel_price of a (hotel, stay day) never decreases
\* from one processed day to the next: it moves up through base x 1.0, 1.1,
\* 1.3, 1.5 and is frozen once the stay day has passed
C39_StoredPriceNeverDecreases == [][PriceStep]_vars

\* the run has reached day 1: the price of stay day 0 is frozen at the level
\* of day -12, the price of stay day 1 is at the last level
C39_Witness ==
    /\ last.op = "process_daily_shopping"
    /\ last.day = 1
    /\ \E k1, k2 \in DOMAIN daily_supply :
           /\ DefaultMultipliers(daily_supply[k1].hotel_id)
           /\ daily_supply[k1].hotel_id = daily_supply[k2].hotel_id
           /\ daily_supply[k1].day = 0
           /\ daily_supply[k2].day = 1
           /\ daily_supply[k1].hotel_price
                = (HotelById(daily_supply[k1].hotel_id).base_price * 13) \div 10
           /\ daily_supply[k2].hotel_price
                = (HotelById(daily_supply[k2].hotel_id).base_price * 15) \div 10

----------------------------------------------------------------------------
(* A load that fails *)

\* C40: when load_run fails on a malformed file, the simulator's
\* simulation_parameters, simulation_id and traveller map are the ones it had
\* before the call
C40_FailedLoadHasNoEffect ==
    (last.op = "load_run" /\ last.raised # "none") =>
        /\ simulation_parameters = last.before.simulation_parameters
        /\ simulation_id = last.before.simulation_id
        /\ users = last.before.users

============================================================================
